---------------------------- MODULE Spec2Model ----------------------------
(***************************************************************************)
(* Model of the cash-grid normalisation engine of the Projected Journal    *)
(* package (src/Projects/sybil_agent/src/core/normaliser.py).              *)
(*                                                                         *)
(* One call of normalise_cash_grid(df_raw, sheet_name) is a run of the     *)
(* state machine: the empty check, layout detection, the layout            *)
(* processor, transaction-type inference, sign normalisation, cleanup and  *)
(* the return.  Text is a sequence of one-character strings, so that the   *)
(* substring searches of the code are computed and not assumed.  Amounts   *)
(* are integers in thousandths of a currency unit (mills): 2004 is 2.004.  *)
(***************************************************************************)
EXTENDS Integers, Sequences, FiniteSets, TLC

\* ------------------------------------------------------------------ bounds
\* Largest number of data rows of a generated grid.
MaxRows == 2

\* -------------------------------------------------------- program constants
\* normaliser.py:85 and :180, the number of period columns of a longwave grid.
LongwaveColumns == 13
\* normaliser.py:195, weeks=i: one period is 7 days.
DaysPerWeek == 7
\* Decimal('0.01') of normaliser.py:312, in mills.
CentMills == 10

\* -------------------------------------------------------------------- text
UpperChars == <<"A","B","C","D","E","F","G","H","I","J","K","L","M",
                "N","O","P","Q","R","S","T","U","V","W","X","Y","Z">>
LowerChars == <<"a","b","c","d","e","f","g","h","i","j","k","l","m",
                "n","o","p","q","r","s","t","u","v","w","x","y","z">>
DigitChars == <<"0","1","2","3","4","5","6","7","8","9">>

\* str.lower() on one character.
LowerChar(c) ==
    IF \E i \in 1..Len(UpperChars) : UpperChars[i] = c
    THEN LowerChars[CHOOSE i \in 1..Len(UpperChars) : UpperChars[i] = c]
    ELSE c

\* str.lower()
Lower(s) == [i \in 1..Len(s) |-> LowerChar(s[i])]

\* str.replace('_', ' ')
ReplaceUnderscore(s) == [i \in 1..Len(s) |-> IF s[i] = "_" THEN " " ELSE s[i]]

\* `pat in s`, and re.search(pat, s) for a pattern without metacharacters.
Contains(s, pat) ==
    \E i \in 1..(Len(s) - Len(pat) + 1) : SubSeq(s, i, i + Len(pat) - 1) = pat

\* any(re.search(p, s) for p in pats)
ContainsAny(s, pats) == \E p \in pats : Contains(s, p)

\* str(n) of a non-negative integer.
RECURSIVE Digits(_)
Digits(n) ==
    IF n < 10 THEN <<DigitChars[n + 1]>>
    ELSE Digits(n \div 10) \o <<DigitChars[(n % 10) + 1]>>

\* ------------------------------------------------------------------- cells
\* A cell of a table.  k is the kind of value:
\*   "num"  a number, n mills            "nan"  blank (NaN / NaT)
\*   "txt"  text s that spells neither a date nor a number
\*   "dstr" text that spells the calendar date of day number n
\*   "nstr" text that spells the number n (mills)
\*   "date" a datetime.date, day number n
Num(n)  == [k |-> "num",  n |-> n, s |-> << >>]
NaN     == [k |-> "nan",  n |-> 0, s |-> << >>]
Txt(s)  == [k |-> "txt",  n |-> 0, s |-> s]
DStr(d) == [k |-> "dstr", n |-> d, s |-> << >>]
NStr(n) == [k |-> "nstr", n |-> n, s |-> << >>]
Date(d) == [k |-> "date", n |-> d, s |-> << >>]

IsNull(c) == c.k = "nan"

Unknown      == <<"U","n","k","n","o","w","n">>
NanText      == <<"n","a","n">>

\* --------------------------------------------------------------- exceptions
SchemaError           == "SchemaError"
UnsupportedGridFormat == "UnsupportedGridFormat"
MappingConflict       == "MappingConflict"
ValueError            == "ValueError"
KeyError              == "KeyError"
NoError               == "none"


\* ------------------------------------------------------------ column names
Name_Date          == <<"D","a","t","e">>
Name_Payment_Date  == <<"P","a","y","m","e","n","t","_","D","a","t","e">>
Name_Vendor        == <<"V","e","n","d","o","r">>
Name_Customer_Name == <<"C","u","s","t","o","m","e","r","_","N","a","m","e">>
Name_Amount        == <<"A","m","o","u","n","t">>
Name_Total         == <<"T","o","t","a","l">>
Name_Random_Col1   == <<"R","a","n","d","o","m","_","C","o","l","1">>
Name_Random_Col2   == <<"R","a","n","d","o","m","_","C","o","l","2">>
Name_Due_Date      == <<"D","u","e","_","D","a","t","e">>
Name_Vendor_Balance == <<"V","e","n","d","o","r","_","B","a","l","a","n","c","e">>
Name_Amount_Due    == <<"A","m","o","u","n","t","_","D","u","e">>
Name_Monthly_Total == <<"M","o","n","t","h","l","y","_","T","o","t","a","l">>
Name_Year          == <<"Y","e","a","r">>
Name_Qty           == <<"Q","t","y">>
Name_When          == <<"W","h","e","n">>
Name_Memo          == <<"M","e","m","o">>
Name_WeekPrefix    == <<"W","e","e","k","_">>
\* f'Week_{j}', the period headers of the repository's test grids.
WeekName(j) == Name_WeekPrefix \o Digits(j)

\* ------------------------------------------------------------ the raw grid
\* A raw grid (pandas DataFrame) is [cols, nrows]: cols is the sequence of its
\* columns in their original order, each [name, numeric, cells]; numeric is
\* the column's dtype being a numpy number dtype, and cells has nrows cells.
\* Row labels are the default RangeIndex 0..nrows-1.

\* Mutant of Empty: only a grid without columns counts as empty.
EmptyNoColumns(df) == Len(df.cols) = 0

\* DataFrame.empty: some axis has length 0.
Empty(df) == Len(df.cols) = 0 \/ df.nrows = 0

\* The column positions 1..n in the grid's original order: what a
\* `for col in df.columns` loop runs over.
Indexes(n) == [i \in 1..n |-> i]

\* df.select_dtypes(include=[np.number]).columns, as column positions.
NumericCols(df) == SelectSeq(Indexes(Len(df.cols)), LAMBDA i : df.cols[i].numeric)

\* ------------------------------------------------------- column classifier
date_patterns ==
    { <<"d","a","t","e">>, <<"d","u","e">>, <<"s","c","h","e","d","u","l","e">>,
      <<"p","a","y","m","e","n","t","_","d","a","t","e">>, <<"c","a","s","h","_","d","a","t","e">>,
      <<"i","n","v","o","i","c","e","_","d","a","t","e">>, <<"b","i","l","l","_","d","a","t","e">>,
      <<"t","x","n","_","d","a","t","e">>, <<"t","r","a","n","s","a","c","t","i","o","n","_","d","a","t","e">> }

amount_patterns ==
    { <<"a","m","o","u","n","t">>, <<"v","a","l","u","e">>, <<"t","o","t","a","l">>,
      <<"s","u","m">>, <<"b","a","l","a","n","c","e">>, <<"c","a","s","h">>,
      <<"d","o","l","l","a","r">>, <<"u","s","d">>, <<"p","r","i","c","e">> }

date_exclusion_patterns ==
    { <<"d","a","t","e">>, <<"t","i","m","e">>, <<"d","a","y">>,
      <<"m","o","n","t","h">>, <<"y","e","a","r">> }

counterparty_patterns ==
    { <<"v","e","n","d","o","r">>, <<"c","u","s","t","o","m","e","r">>, <<"c","o","u","n","t","e","r","p","a","r","t","y">>,
      <<"p","a","r","t","y">>, <<"d","e","s","c","r","i","p","t","i","o","n">>, <<"m","e","m","o">>,
      <<"d","e","t","a","i","l","s">>, <<"n","a","m","e">>, <<"c","o","m","p","a","n","y">> }

\* Whether pd.to_datetime accepts the cell (errors='raise'): text that spells
\* no date raises; a blank becomes NaT; a number is nanoseconds since the epoch.
DateParses(c) == c.k \in {"dstr", "date", "nan", "num"}

\* The first 10 non-blank values of a column (series.dropna().head(10)).
RECURSIVE DropNaHead(_, _)
DropNaHead(cells, n) ==
    IF n = 0 \/ cells = << >> THEN << >>
    ELSE IF IsNull(Head(cells)) THEN DropNaHead(Tail(cells), n)
    ELSE <<Head(cells)>> \o DropNaHead(Tail(cells), n - 1)

_column_contains_dates(col) ==
    LET sample == DropNaHead(col.cells, 10)
    IN  IF Len(sample) = 0 THEN FALSE
        ELSE \A i \in 1..Len(sample) : DateParses(sample[i])

\* Mutant of IsDateColumn: a column named like a date is date-like only if
\* the sample of its values parses.
IsDateColumnProbed(col) ==
    LET col_lower == Lower(col.name)
    IN  ContainsAny(col_lower, date_patterns) /\ _column_contains_dates(col)

IsDateColumn(col) ==
    LET col_lower == Lower(col.name)
    IN  \/ ContainsAny(col_lower, date_patterns)
        \/ (Contains(col_lower, <<"d","a","t","e">>) /\ _column_contains_dates(col))

_find_date_columns(df) == SelectSeq(Indexes(Len(df.cols)), LAMBDA i : IsDateColumn(df.cols[i]))

\* Mutant of IsAmountColumn: the amount patterns are tried before the
\* exclusion, which then only guards the dtype test.
IsAmountColumnPatternFirst(col) ==
    LET col_lower == Lower(col.name)
    IN  \/ ContainsAny(col_lower, amount_patterns)
        \/ (~ContainsAny(col_lower, date_exclusion_patterns) /\ col.numeric)

IsAmountColumn(col) ==
    LET col_lower == Lower(col.name)
    IN  /\ ~ContainsAny(col_lower, date_exclusion_patterns)
        /\ (ContainsAny(col_lower, amount_patterns) \/ col.numeric)

_find_amount_columns(df) == SelectSeq(Indexes(Len(df.cols)), LAMBDA i : IsAmountColumn(df.cols[i]))

\* --------------------------------------------------------- layout detector
\* Mutant of _detect_grid_layout: the event-list check runs before the count.
DetectEventListFirst(df) ==
    IF Len(_find_date_columns(df)) >= 1 /\ Len(_find_amount_columns(df)) >= 1
    THEN "simple_list"
    ELSE IF Len(NumericCols(df)) = LongwaveColumns THEN "longwave"
    ELSE "unknown"

\* Mutant of _detect_grid_layout: 13 or more numeric columns are longwave.
DetectAtLeastThirteen(df) ==
    IF Len(NumericCols(df)) >= LongwaveColumns THEN "longwave"
    ELSE IF Len(_find_date_columns(df)) >= 1 /\ Len(_find_amount_columns(df)) >= 1
         THEN "simple_list"
         ELSE "unknown"

_detect_grid_layout(df) ==
    IF Len(NumericCols(df)) = LongwaveColumns THEN "longwave"
    ELSE IF Len(_find_date_columns(df)) >= 1 /\ Len(_find_amount_columns(df)) >= 1
         THEN "simple_list"
         ELSE "unknown"

\* ------------------------------------------------------ intermediate table
\* A table of the pipeline is [columns, rows]: columns is the sequence of the
\* column labels present, rows the sequence of rows.  A row carries its index
\* label idx and one cell per canonical column; the field of a column that is
\* not (yet) present holds a placeholder and is never read.
NoType == "-"
MakeRow(idx, cp, sd, amt, ls) ==
    [idx |-> idx, counterparty |-> cp, scheduled_date |-> sd, amount |-> amt,
     line_source |-> ls, txn_type |-> NoType]

NoTable == [columns |-> << >>, rows |-> << >>]
Raise(e)   == [err |-> e, table |-> NoTable]
Return(tb) == [err |-> NoError, table |-> tb]

\* Mutant of NonZero: the filter keeps positive amounts only (series > 0).
NonZeroPositiveOnly(c) == c.k = "num" /\ c.n > 0

\* series != 0 : NaN != 0 is True.
NonZero(c) == ~(c.k = "num" /\ c.n = 0)

\* ------------------------------------------------- wide time-series processor
\* Mutant of PeriodDate: the period positions are counted from 1.
PeriodDateOneBased(today, i) == today + DaysPerWeek * (i + 1)

\* base_date + pd.Timedelta(weeks=i) for the period at position i (0-indexed).
PeriodDate(today, i) == today + DaysPerWeek * i

_process_longwave_grid(df, today) ==
    LET numeric_cols     == NumericCols(df)
        non_numeric_cols == SelectSeq(Indexes(Len(df.cols)), LAMBDA i : ~df.cols[i].numeric)
    IN  IF Len(non_numeric_cols) = 0 THEN Raise(UnsupportedGridFormat)
        ELSE
        LET counterparty_col == non_numeric_cols[1]
            \* numeric_cols[:13]
            value_vars == SubSeq(numeric_cols, 1,
                                 IF Len(numeric_cols) < LongwaveColumns
                                 THEN Len(numeric_cols) ELSE LongwaveColumns)
            \* df.melt: one row per (period, source row), periods outermost,
            \* under a new RangeIndex 0..len-1.
            Melted(m) ==
                LET i == m \div df.nrows
                    r == (m % df.nrows) + 1
                    period_column == df.cols[value_vars[i + 1]]
                IN  MakeRow(m,
                            df.cols[counterparty_col].cells[r],
                            Date(PeriodDate(today, i)),
                            period_column.cells[r],
                            Digits(m) \o <<":">> \o period_column.name)
            df_melted == [k \in 1..(Len(value_vars) * df.nrows) |-> Melted(k - 1)]
            kept == SelectSeq(df_melted,
                              LAMBDA row : ~IsNull(row.amount) /\ NonZero(row.amount))
        IN  Return([columns |-> <<"counterparty", "scheduled_date", "amount", "line_source">>,
                    rows |-> kept])

\* ------------------------------------------------------ event-list processor
\* pd.to_datetime(x).dt.date of one cell that parses.
ToDate(c) ==
    CASE c.k = "dstr" -> Date(c.n)
      [] c.k = "date" -> Date(c.n)
      [] c.k = "num"  -> Date(IF c.n >= 0 THEN 0 ELSE -1)
      [] OTHER        -> NaN

\* pd.to_numeric(x, errors='coerce') of one cell.
ToNumeric(c) ==
    CASE c.k = "num"  -> Num(c.n)
      [] c.k = "nstr" -> Num(c.n)
      [] OTHER        -> NaN

\* series.astype(str) of one cell: a blank becomes the text "nan".
AsTypeStr(c) ==
    CASE c.k = "nan"  -> Txt(NanText)
      [] c.k = "num"  -> NStr(c.n)
      [] c.k = "date" -> DStr(c.n)
      [] OTHER        -> c

\* Mutant of IsCounterpartyColumn: the name is matched as it is spelled.
IsCounterpartyColumnCaseSensitive(col) ==
    ContainsAny(ReplaceUnderscore(col.name), counterparty_patterns)

IsCounterpartyColumn(col) ==
    ContainsAny(ReplaceUnderscore(Lower(col.name)), counterparty_patterns)

\* Mutant of _process_simple_list: the last amount-like column is the amount
\* column.
ProcessSimpleListLastAmount(df) ==
    LET date_cols   == _find_date_columns(df)
        amount_cols == _find_amount_columns(df)
    IN  IF Len(date_cols) = 0 THEN Raise(UnsupportedGridFormat)
        ELSE IF Len(amount_cols) = 0 THEN Raise(UnsupportedGridFormat)
        ELSE
        LET date_col   == df.cols[date_cols[1]]
            amount_col == df.cols[amount_cols[Len(amount_cols)]]
            matches    == SelectSeq(Indexes(Len(df.cols)), LAMBDA i : IsCounterpartyColumn(df.cols[i]))
            Row(r) ==
                MakeRow(r - 1,
                        IF Len(matches) > 0 THEN AsTypeStr(df.cols[matches[1]].cells[r])
                                            ELSE Txt(Unknown),
                        ToDate(date_col.cells[r]),
                        ToNumeric(amount_col.cells[r]),
                        Digits(r - 1) \o <<":">> \o date_col.name \o <<"+">> \o amount_col.name)
            all  == [r \in 1..df.nrows |-> Row(r)]
            kept == SelectSeq(all, LAMBDA row : /\ ~IsNull(row.scheduled_date)
                                               /\ ~IsNull(row.amount)
                                               /\ NonZero(row.amount))
        IN  \* pd.to_datetime raises on the first value that spells no date
            IF \E r \in 1..df.nrows : ~DateParses(date_col.cells[r])
            THEN Raise(ValueError)
            ELSE Return([columns |-> <<"scheduled_date", "amount", "counterparty", "line_source">>,
                         rows |-> kept])

_process_simple_list(df) ==
    LET date_cols   == _find_date_columns(df)
        amount_cols == _find_amount_columns(df)
    IN  IF Len(date_cols) = 0 THEN Raise(UnsupportedGridFormat)
        ELSE IF Len(amount_cols) = 0 THEN Raise(UnsupportedGridFormat)
        ELSE
        LET date_col   == df.cols[date_cols[1]]
            amount_col == df.cols[amount_cols[1]]
            matches    == SelectSeq(Indexes(Len(df.cols)), LAMBDA i : IsCounterpartyColumn(df.cols[i]))
            Row(r) ==
                MakeRow(r - 1,
                        IF Len(matches) > 0 THEN AsTypeStr(df.cols[matches[1]].cells[r])
                                            ELSE Txt(Unknown),
                        ToDate(date_col.cells[r]),
                        ToNumeric(amount_col.cells[r]),
                        Digits(r - 1) \o <<":">> \o date_col.name \o <<"+">> \o amount_col.name)
            all  == [r \in 1..df.nrows |-> Row(r)]
            kept == SelectSeq(all, LAMBDA row : /\ ~IsNull(row.scheduled_date)
                                               /\ ~IsNull(row.amount)
                                               /\ NonZero(row.amount))
        IN  \* pd.to_datetime raises on the first value that spells no date
            IF \E r \in 1..df.nrows : ~DateParses(date_col.cells[r])
            THEN Raise(ValueError)
            ELSE Return([columns |-> <<"scheduled_date", "amount", "counterparty", "line_source">>,
                         rows |-> kept])

\* ------------------------------------------------ transaction-type inferencer
\* The sheet-name hint is [none, s]: none for sheet_name=None, else the text s.
NoHint    == [none |-> TRUE,  s |-> << >>]
Hint(s)   == [none |-> FALSE, s |-> s]
Truthy(h) == ~h.none /\ Len(h.s) > 0

\* Mutant of SignType: the two labels exchanged.
SignTypeSwapped(c) == IF c.k = "num" /\ c.n >= 0 THEN "AP" ELSE "AR"

\* lambda x: 'AR' if x >= 0 else 'AP' (a NaN compares False).
SignType(c) == IF c.k = "num" /\ c.n >= 0 THEN "AR" ELSE "AP"

\* Mutant of _infer_transaction_type: without a matching hint no type is set.
InferFromHintOnly(tb, sheet_name) ==
    LET sheet_lower == Lower(sheet_name.s)
    IN  IF Truthy(sheet_name) /\ (Contains(sheet_lower, <<"p","a","y","a","b","l","e">>)
                                  \/ Contains(sheet_lower, <<"a","p">>))
        THEN [i \in 1..Len(tb.rows) |-> "AP"]
        ELSE IF Truthy(sheet_name) /\ (Contains(sheet_lower, <<"r","e","c","e","i","v","a","b","l","e">>)
                                       \/ Contains(sheet_lower, <<"a","r">>))
        THEN [i \in 1..Len(tb.rows) |-> "AR"]
        ELSE [i \in 1..Len(tb.rows) |-> NoType]

\* Mutant of _infer_transaction_type: the AR test runs before the AP test.
InferReceivableFirst(tb, sheet_name) ==
    LET sheet_lower == Lower(sheet_name.s)
    IN  IF Truthy(sheet_name) /\ (Contains(sheet_lower, <<"r","e","c","e","i","v","a","b","l","e">>)
                                  \/ Contains(sheet_lower, <<"a","r">>))
        THEN [i \in 1..Len(tb.rows) |-> "AR"]
        ELSE IF Truthy(sheet_name) /\ (Contains(sheet_lower, <<"p","a","y","a","b","l","e">>)
                                       \/ Contains(sheet_lower, <<"a","p">>))
        THEN [i \in 1..Len(tb.rows) |-> "AP"]
        ELSE [i \in 1..Len(tb.rows) |-> SignType(tb.rows[i].amount)]

_infer_transaction_type(tb, sheet_name) ==
    LET sheet_lower == Lower(sheet_name.s)
    IN  IF Truthy(sheet_name) /\ (Contains(sheet_lower, <<"p","a","y","a","b","l","e">>)
                                  \/ Contains(sheet_lower, <<"a","p">>))
        THEN [i \in 1..Len(tb.rows) |-> "AP"]
        ELSE IF Truthy(sheet_name) /\ (Contains(sheet_lower, <<"r","e","c","e","i","v","a","b","l","e">>)
                                       \/ Contains(sheet_lower, <<"a","r">>))
        THEN [i \in 1..Len(tb.rows) |-> "AR"]
        ELSE [i \in 1..Len(tb.rows) |-> SignType(tb.rows[i].amount)]

\* df['txn_type'] = series : the column is added last if it is new.
SetColumn(columns, label) ==
    IF \E i \in 1..Len(columns) : columns[i] = label THEN columns
    ELSE Append(columns, label)

HasColumn(tb, label) == \E i \in 1..Len(tb.columns) : tb.columns[i] = label

\* ------------------------------------------------------------- canonicalizer
AbsInt(n) == IF n < 0 THEN -n ELSE n

\* series.abs() of one cell.
AbsCell(c) == IF c.k = "num" THEN Num(AbsInt(c.n)) ELSE c

\* Mutant of Quantize: halfway cases go away from zero (ROUND_HALF_UP).
QuantizeHalfUp(n) ==
    LET a == AbsInt(n)
        m == ((2 * a + CentMills) \div (2 * CentMills)) * CentMills
    IN  IF n < 0 THEN -m ELSE m

\* Decimal(str(x)).quantize(Decimal('0.01')) under the default context, whose
\* rounding is ROUND_HALF_EVEN; the result in mills.
Quantize(n) ==
    LET a  == AbsInt(n)
        q  == a \div CentMills
        r  == a % CentMills
        up == 2 * r > CentMills \/ (2 * r = CentMills /\ q % 2 = 1)
        m  == (q + (IF up THEN 1 ELSE 0)) * CentMills
    IN  IF n < 0 THEN -m ELSE m

QuantizeCell(c) == IF c.k = "num" THEN Num(Quantize(c.n)) ELSE c

\* fillna('Unknown') and the replacement of '' by 'Unknown'.
FillCounterparty(c) ==
    IF IsNull(c) THEN Txt(Unknown)
    ELSE IF c.k = "txt" /\ c.s = << >> THEN Txt(Unknown)
    ELSE c

required_cols == <<"txn_type", "counterparty", "scheduled_date", "amount", "line_source">>

_cleanup_normalized_data(tb) ==
    IF ~HasColumn(tb, "counterparty") THEN Raise(KeyError)
    ELSE IF ~HasColumn(tb, "amount") THEN Raise(KeyError)
    ELSE
    LET filled  == [i \in 1..Len(tb.rows) |->
                       [tb.rows[i] EXCEPT !.counterparty = FillCounterparty(@)]]
        nonzero == SelectSeq(filled, LAMBDA row : NonZero(row.amount))
        rounded == [i \in 1..Len(nonzero) |->
                       [nonzero[i] EXCEPT !.amount = QuantizeCell(@)]]
    IN  IF \E i \in 1..Len(required_cols) : ~HasColumn(tb, required_cols[i])
        THEN Raise(SchemaError)
        ELSE Return([columns |-> required_cols, rows |-> rounded])

\* ------------------------------------------------------------------ inputs
\* The source rows a generated workbook is made of: a date cell, a
\* counterparty cell and an amount cell (mills).
AbcCorp == <<"A","B","C"," ","C","o","r","p">>
DefInc == <<"D","E","F"," ","I","n","c">>
Pending == <<"T","B","D">>

RowKinds ==
    { [date |-> DStr(19724),     cp |-> Txt(AbcCorp),    amt |-> Num(1000)],
      [date |-> DStr(19725),     cp |-> NaN,         amt |-> Num(-2000)],
      [date |-> DStr(19726),     cp |-> Txt(<< >>),  amt |-> Num(4)],
      [date |-> Txt(Pending),   cp |-> Txt(DefInc),    amt |-> Num(3000)],
      [date |-> NaN,             cp |-> Txt(DefInc),    amt |-> Num(125)],
      [date |-> DStr(19727),     cp |-> Txt(AbcCorp),    amt |-> Num(0)] }

RECURSIVE SeqsUpTo(_, _)
SeqsUpTo(S, n) ==
    IF n = 0 THEN { << >> }
    ELSE LET shorter == SeqsUpTo(S, n - 1)
         IN  shorter \cup { Append(q, x) : q \in shorter, x \in S }

\* The cell of period column j (1-based) in a source row: the row's amount in
\* the first period, a blank in the second, 5.000 in period 12, 3.000 in
\* period 13 and 7.000 in period 14, zero elsewhere.
WeekCell(row, j) ==
    IF j = 1 THEN row.amt
    ELSE IF j = 2 THEN NaN
    ELSE IF j = 12 THEN Num(5000)
    ELSE IF j = 13 THEN Num(3000)
    ELSE IF j = 14 THEN Num(7000)
    ELSE Num(0)

\* A column recipe is [name, numeric, src, j]: src says which part of a source
\* row fills the column.
ColSpec(name, numeric, src, j) == [name |-> name, numeric |-> numeric, src |-> src, j |-> j]

SpecCell(spec, row, r) ==
    CASE spec.src = "date"    -> row.date
      [] spec.src = "cp"      -> row.cp
      [] spec.src = "amt"     -> row.amt
      [] spec.src = "week"    -> WeekCell(row, spec.j)
      \* an integer date serial, as a spreadsheet stores a date
      [] spec.src = "datenum" -> Num(45000000 + 1000 * r)
      \* the amount typed as text; a negative one replaced by the text "TBD"
      [] spec.src = "txtamt"  -> IF row.amt.n >= 0 THEN NStr(row.amt.n) ELSE Txt(Pending)
      [] OTHER                -> Txt(AbcCorp)

Weeks(n) == [j \in 1..n |-> ColSpec(WeekName(j), TRUE, "week", j)]

Col_Date       == ColSpec(Name_Date, FALSE, "date", 0)
Col_PayDate    == ColSpec(Name_Payment_Date, FALSE, "date", 0)
Col_DateNum    == ColSpec(Name_Date, TRUE, "datenum", 0)
Col_Vendor     == ColSpec(Name_Vendor, FALSE, "cp", 0)
Col_Customer   == ColSpec(Name_Customer_Name, FALSE, "cp", 0)
Col_Amount     == ColSpec(Name_Amount, TRUE, "amt", 0)
Col_TotalText  == ColSpec(Name_Total, FALSE, "txtamt", 0)
Col_Random1    == ColSpec(Name_Random_Col1, FALSE, "junk", 0)
Col_Random2    == ColSpec(Name_Random_Col2, FALSE, "junk", 0)

Layouts ==
    { << >>,
      <<Col_Date, Col_Vendor, Col_Amount>>,
      <<Col_Date, Col_Amount>>,
      <<Col_PayDate, Col_Customer, Col_TotalText>>,
      <<Col_Random1, Col_Random2>>,
      <<Col_Vendor>> \o Weeks(LongwaveColumns),
      <<Col_Vendor>> \o Weeks(LongwaveColumns - 1),
      <<Col_Vendor>> \o Weeks(LongwaveColumns + 1),
      Weeks(LongwaveColumns),
      <<Col_Date, Col_Vendor>> \o Weeks(LongwaveColumns - 1),
      <<Col_Date, Col_Vendor>> \o Weeks(LongwaveColumns + 1),
      <<Col_DateNum, Col_Vendor>> \o Weeks(LongwaveColumns - 1),
      <<Col_Date, Col_Vendor, Col_TotalText>> \o Weeks(LongwaveColumns) }

BuildGrid(layout, rows) ==
    [cols |-> [c \in 1..Len(layout) |->
                 [name    |-> layout[c].name,
                  numeric |-> layout[c].numeric,
                  cells   |-> [r \in 1..Len(rows) |-> SpecCell(layout[c], rows[r], r)]]],
     nrows |-> Len(rows)]

Grids == { BuildGrid(layout, rows) : layout \in Layouts, rows \in SeqsUpTo(RowKinds, MaxRows) }

Hints ==
    { NoHint,
      Hint(<< >>),
      Hint(<<"A","c","c","o","u","n","t","s","_","P","a","y","a","b","l","e">>),
      Hint(<<"A","R","_","A","g","i","n","g">>),
      Hint(<<"A","R","_","A","P">>),
      Hint(<<"S","n","a","p","s","h","o","t">>),
      Hint(<<"M","a","r","c","h">>),
      Hint(<<"S","h","e","e","t","1">>) }

\* pd.Timestamp.now().date() as a day number.
RunDates == { 20000 }

\* ------------------------------------------------------------ state machine
VARIABLES
    df_raw,         \* the raw grid handed to normalise_cash_grid
    sheet_name,     \* the sheet-name hint
    today,          \* the date of the run
    pc,             \* where the call is: start, detect, process, post, done, failed
    stage,          \* the next step of Pipeline while pc = "post"
    layout_type,    \* the result of layout detection ("" before it ran)
    df_normalized,  \* the table being normalised
    err,            \* the exception that ended the call
    result,         \* the returned table
    calls,          \* the calls in progress when several callers run at once
    args,           \* the files the command line names, and whether --out can be written
    cli_pc,         \* where main() is: files, load, validate, generate, export, exited
    bundle,         \* the DataBundle load_all_workbooks returned
    validation,     \* what validate_all returned
    journal,        \* the table build_projected_journal returned
    exit_code,      \* the exit status of the process
    stderr,         \* what main() printed on stderr
    out_file,       \* the journal written at --out
    amounts,        \* the list handed to validate_amount_precision
    errors,         \* the list validate_amount_precision returned
    unit_pc         \* where the validator call is: idle, call, returned

\* The state of a command-line run and of a validator call.
cli_vars  == <<args, cli_pc, bundle, validation, journal, exit_code, stderr, out_file>>
unit_vars == <<amounts, errors, unit_pc>>

vars == <<df_raw, sheet_name, today, pc, stage, layout_type, df_normalized, err, result, calls,
          cli_vars, unit_vars>>

\* No caller besides the one whose locals are the variables above.
NoCalls == << >>

\* No command-line run and no validator call is under way.
NoJournal == [columns |-> << >>, rows |-> << >>]
NoBundle  == [beginning_bs |-> << >>, gaap_mapping |-> << >>,
              cashflow_mapping |-> << >>, ap_grid_events |-> << >>]
NoOutput  == [written |-> FALSE, table |-> NoJournal]
NoArgs    == [files |-> << >>, out_writable |-> TRUE, verbose |-> FALSE]
NoExit    == -1

CliIdle ==
    /\ args = NoArgs
    /\ cli_pc = "exited"
    /\ bundle = NoBundle
    /\ validation = << >>
    /\ journal = NoJournal
    /\ exit_code = NoExit
    /\ stderr = << >>
    /\ out_file = NoOutput

UnitIdle ==
    /\ amounts = << >>
    /\ errors = << >>
    /\ unit_pc = "idle"

\* Mutant of Pipeline: the sign is discarded before the type is inferred.
PipelineAbsFirst == <<"abs", "infer", "cleanup">>

\* Steps 3 to 5 of normalise_cash_grid, in the order the code runs them.
Pipeline == <<"infer", "abs", "cleanup">>

Init ==
    /\ df_raw \in Grids
    /\ sheet_name \in Hints
    /\ today \in RunDates
    /\ pc = "start"
    /\ stage = 0
    /\ layout_type = ""
    /\ df_normalized = NoTable
    /\ err = NoError
    /\ result = NoTable
    /\ calls = NoCalls
    /\ CliIdle
    /\ UnitIdle

Fail(e) ==
    /\ pc' = "failed"
    /\ err' = e

\* if df_raw.empty: raise SchemaError
CheckEmpty ==
    /\ pc = "start"
    /\ IF Empty(df_raw)
       THEN Fail(SchemaError)
       ELSE pc' = "detect" /\ err' = err
    /\ UNCHANGED <<df_raw, sheet_name, today, stage, layout_type, df_normalized, result, calls, cli_vars, unit_vars>>

\* layout_type = _detect_grid_layout(df_raw)
DetectLayout ==
    /\ pc = "detect"
    /\ layout_type' = _detect_grid_layout(df_raw)
    /\ pc' = "process"
    /\ UNCHANGED <<df_raw, sheet_name, today, stage, df_normalized, err, result, calls, cli_vars, unit_vars>>

Processed(r) ==
    /\ IF r.err # NoError
       THEN Fail(r.err) /\ UNCHANGED <<df_normalized, stage>>
       ELSE /\ df_normalized' = r.table
            /\ pc' = "post"
            /\ stage' = 1
            /\ err' = err
    /\ UNCHANGED <<df_raw, sheet_name, today, layout_type, result, calls, cli_vars, unit_vars>>

\* Mutant of ProcessLongwave: a grid without a text column is handed over to
\* the event-list processor.
ProcessLongwaveRerouted ==
    /\ pc = "process"
    /\ layout_type = "longwave"
    /\ IF \A i \in 1..Len(df_raw.cols) : df_raw.cols[i].numeric
       THEN /\ layout_type' = "simple_list"
            /\ UNCHANGED <<df_raw, sheet_name, today, pc, stage, df_normalized, err, result, calls, cli_vars, unit_vars>>
       ELSE Processed(_process_longwave_grid(df_raw, today))

ProcessLongwave ==
    /\ pc = "process"
    /\ layout_type = "longwave"
    /\ Processed(_process_longwave_grid(df_raw, today))

\* Mutant of ProcessSimpleList: the parsed dates are written back into the
\* date column of the raw grid.
ProcessSimpleListInPlace ==
    /\ pc = "process"
    /\ layout_type = "simple_list"
    /\ LET r == _process_simple_list(df_raw)
       IN  IF r.err # NoError
           THEN Fail(r.err) /\ UNCHANGED <<df_raw, df_normalized, stage>>
           ELSE /\ df_normalized' = r.table
                /\ pc' = "post"
                /\ stage' = 1
                /\ err' = err
                /\ df_raw' = [df_raw EXCEPT !.cols[_find_date_columns(df_raw)[1]].cells =
                                 [k \in 1..df_raw.nrows |-> ToDate(@[k])]]
    /\ UNCHANGED <<sheet_name, today, layout_type, result, calls, cli_vars, unit_vars>>

ProcessSimpleList ==
    /\ pc = "process"
    /\ layout_type = "simple_list"
    /\ Processed(_process_simple_list(df_raw))

\* Mutant of RejectLayout: the fall-through branch raises the schema error.
RejectLayoutSchemaError ==
    /\ pc = "process"
    /\ layout_type \notin {"longwave", "simple_list"}
    /\ Fail(SchemaError)
    /\ UNCHANGED <<df_raw, sheet_name, today, stage, layout_type, df_normalized, result, calls, cli_vars, unit_vars>>

\* else: raise UnsupportedGridFormat
RejectLayout ==
    /\ pc = "process"
    /\ layout_type \notin {"longwave", "simple_list"}
    /\ Fail(UnsupportedGridFormat)
    /\ UNCHANGED <<df_raw, sheet_name, today, stage, layout_type, df_normalized, result, calls, cli_vars, unit_vars>>

AtStep(name) == pc = "post" /\ stage \in 1..Len(Pipeline) /\ Pipeline[stage] = name

\* df_normalized['txn_type'] = _infer_transaction_type(df_normalized, sheet_name)
InferType ==
    /\ AtStep("infer")
    /\ LET types == _infer_transaction_type(df_normalized, sheet_name)
       IN  df_normalized' =
              [columns |-> SetColumn(df_normalized.columns, "txn_type"),
               rows |-> [i \in 1..Len(df_normalized.rows) |->
                           [df_normalized.rows[i] EXCEPT !.txn_type = types[i]]]]
    /\ stage' = stage + 1
    /\ UNCHANGED <<df_raw, sheet_name, today, pc, layout_type, err, result, calls, cli_vars, unit_vars>>

\* df_normalized['amount'] = df_normalized['amount'].abs()
NormaliseSign ==
    /\ AtStep("abs")
    /\ df_normalized' =
          [df_normalized EXCEPT !.rows =
              [i \in 1..Len(df_normalized.rows) |->
                  [df_normalized.rows[i] EXCEPT !.amount = AbsCell(@)]]]
    /\ stage' = stage + 1
    /\ UNCHANGED <<df_raw, sheet_name, today, pc, layout_type, err, result, calls, cli_vars, unit_vars>>

\* df_normalized = _cleanup_normalized_data(df_normalized)
Cleanup ==
    /\ AtStep("cleanup")
    /\ LET r == _cleanup_normalized_data(df_normalized)
       IN  IF r.err # NoError
           THEN Fail(r.err) /\ UNCHANGED <<df_normalized, stage>>
           ELSE /\ df_normalized' = r.table
                /\ stage' = stage + 1
                /\ UNCHANGED <<pc, err>>
    /\ UNCHANGED <<df_raw, sheet_name, today, layout_type, result, calls, cli_vars, unit_vars>>

\* return df_normalized
ReturnTable ==
    /\ pc = "post"
    /\ stage > Len(Pipeline)
    /\ result' = df_normalized
    /\ pc' = "done"
    /\ UNCHANGED <<df_raw, sheet_name, today, stage, layout_type, df_normalized, err, calls, cli_vars, unit_vars>>

Next ==
    \/ CheckEmpty
    \/ DetectLayout
    \/ ProcessLongwave
    \/ ProcessSimpleList
    \/ RejectLayout
    \/ InferType
    \/ NormaliseSign
    \/ Cleanup
    \/ ReturnTable

Spec == Init /\ [][Next]_vars

\* ---------------------------------------------- the canonicalizer on its own
\* _cleanup_normalized_data called directly on a table, as its unit test does.
ColText(k) == Digits(k) \o <<":", "c", "o", "l">> \o Digits(k)

CleanupRow(idx, type, cp, day, mills) ==
    [MakeRow(idx, cp, Date(day), Num(mills), ColText(idx + 1)) EXCEPT !.txn_type = type]

\* The rows a table under test is made of; the index label of a row is its
\* position here. Amounts are in mills: 1000.123, 0, 2500.67, 0.125, 0.135,
\* -0.125, 0.004 and 0.126.
CleanupCatalogue ==
    << CleanupRow(0, "AP", Txt(AbcCorp), 19723, 1000123),
       CleanupRow(1, "AR", NaN,          19724, 0),
       CleanupRow(2, "AP", Txt(<< >>),   19725, 2500670),
       CleanupRow(3, "AR", Txt(DefInc),  19726, 125),
       CleanupRow(4, "AP", Txt(DefInc),  19727, 135),
       CleanupRow(5, "AP", Txt(AbcCorp), 19728, -125),
       CleanupRow(6, "AR", NaN,          19729, 4),
       CleanupRow(7, "AR", Txt(AbcCorp), 19730, 126) >>

\* The five canonical columns, or the five less one.
ColumnChoices ==
    { required_cols } \cup
    { SelectSeq(required_cols, LAMBDA c : c # required_cols[k]) : k \in 1..Len(required_cols) }

\* A row of a table that has the columns cols only.
ProjectRow(row, cols) ==
    LET Has(label) == \E i \in 1..Len(cols) : cols[i] = label
    IN  [idx            |-> row.idx,
         txn_type       |-> IF Has("txn_type") THEN row.txn_type ELSE NoType,
         counterparty   |-> IF Has("counterparty") THEN row.counterparty ELSE NaN,
         scheduled_date |-> IF Has("scheduled_date") THEN row.scheduled_date ELSE NaN,
         amount         |-> IF Has("amount") THEN row.amount ELSE NaN,
         line_source    |-> IF Has("line_source") THEN row.line_source ELSE << >>]

CleanupTables ==
    { [columns |-> cols,
       rows |-> LET picked == SelectSeq(CleanupCatalogue, LAMBDA row : row.idx \in S)
                IN  [i \in 1..Len(picked) |-> ProjectRow(picked[i], cols)]] :
        S \in SUBSET (0..(Len(CleanupCatalogue) - 1)), cols \in ColumnChoices }

CleanupStage == CHOOSE i \in 1..Len(Pipeline) : Pipeline[i] = "cleanup"

CleanupInit ==
    /\ df_raw = BuildGrid(<< >>, << >>)
    /\ sheet_name = NoHint
    /\ today \in RunDates
    /\ pc = "post"
    /\ stage = CleanupStage
    /\ layout_type = ""
    /\ df_normalized \in CleanupTables
    /\ err = NoError
    /\ result = NoTable
    /\ calls = NoCalls
    /\ CliIdle
    /\ UnitIdle

CleanupNext ==
    \/ Cleanup
    \/ ReturnTable

SpecCleanup == CleanupInit /\ [][CleanupNext]_vars

\* ------------------------------------------------------- concurrent callers
\* The locals of one call of normalise_cash_grid; the run date is the
\* callers' common clock.
Call(df, hint) ==
    [df_raw |-> df, sheet_name |-> hint, pc |-> "start", stage |-> 0, layout_type |-> "",
     df_normalized |-> NoTable, err |-> NoError, result |-> NoTable]

Failed(c, e) == [c EXCEPT !.pc = "failed", !.err = e]

HasFinished(c) == c.pc \in {"done", "failed"}

\* The next statement of the call c, as the steps above run it.
CallStep(c, t) ==
    CASE c.pc = "start" ->
            IF Empty(c.df_raw) THEN Failed(c, SchemaError) ELSE [c EXCEPT !.pc = "detect"]
      [] c.pc = "detect" ->
            [c EXCEPT !.layout_type = _detect_grid_layout(c.df_raw), !.pc = "process"]
      [] c.pc = "process" ->
            LET r == IF c.layout_type = "longwave" THEN _process_longwave_grid(c.df_raw, t)
                     ELSE IF c.layout_type = "simple_list" THEN _process_simple_list(c.df_raw)
                     ELSE Raise(UnsupportedGridFormat)
            IN  IF r.err # NoError THEN Failed(c, r.err)
                ELSE [c EXCEPT !.df_normalized = r.table, !.pc = "post", !.stage = 1]
      [] c.pc = "post" /\ c.stage > Len(Pipeline) ->
            [c EXCEPT !.result = c.df_normalized, !.pc = "done"]
      [] c.pc = "post" /\ c.stage <= Len(Pipeline) /\ Pipeline[c.stage] = "infer" ->
            LET types == _infer_transaction_type(c.df_normalized, c.sheet_name)
            IN  [c EXCEPT !.df_normalized =
                            [columns |-> SetColumn(c.df_normalized.columns, "txn_type"),
                             rows |-> [i \in 1..Len(c.df_normalized.rows) |->
                                         [c.df_normalized.rows[i] EXCEPT !.txn_type = types[i]]]],
                          !.stage = @ + 1]
      [] c.pc = "post" /\ c.stage <= Len(Pipeline) /\ Pipeline[c.stage] = "abs" ->
            [c EXCEPT !.df_normalized.rows =
                          [i \in 1..Len(c.df_normalized.rows) |->
                              [c.df_normalized.rows[i] EXCEPT !.amount = AbsCell(@)]],
                      !.stage = @ + 1]
      [] c.pc = "post" /\ c.stage <= Len(Pipeline) /\ Pipeline[c.stage] = "cleanup" ->
            LET r == _cleanup_normalized_data(c.df_normalized)
            IN  IF r.err # NoError THEN Failed(c, r.err)
                ELSE [c EXCEPT !.df_normalized = r.table, !.stage = @ + 1]
      [] OTHER -> c

\* normalise_cash_grid run from its first statement to its end with no other
\* caller about.
RECURSIVE RunToEnd(_, _)
RunToEnd(c, t) == IF HasFinished(c) THEN c ELSE RunToEnd(CallStep(c, t), t)

RunAlone(df, hint, t) == RunToEnd(Call(df, hint), t)

CallIds == {1, 2}

\* The grids and hints two callers pass at once: one-row grids of an event
\* list, a wide time series and an unsupported layout, and the empty grid.
ConcurrentLayouts ==
    { << >>,
      <<Col_Date, Col_Vendor, Col_Amount>>,
      <<Col_Vendor>> \o Weeks(LongwaveColumns),
      <<Col_Random1, Col_Random2>> }

ConcurrentGrids ==
    { BuildGrid(layout, rows) : layout \in ConcurrentLayouts, rows \in SeqsUpTo(RowKinds, 1) }

ConcurrentHints == { NoHint, Hint(<<"A","c","c","o","u","n","t","s","_","P","a","y","a","b","l","e">>) }

ConcurrentInit ==
    /\ calls \in [CallIds -> { Call(df, hint) : df \in ConcurrentGrids, hint \in ConcurrentHints }]
    /\ today \in RunDates
    /\ df_raw = BuildGrid(<< >>, << >>)
    /\ sheet_name = NoHint
    /\ pc = "done"
    /\ stage = 0
    /\ layout_type = ""
    /\ df_normalized = NoTable
    /\ err = NoError
    /\ result = NoTable
    /\ CliIdle
    /\ UnitIdle

\* Mutant of ConcurrentStep: layout_type is one module-level variable, so a
\* caller sees the layout the other caller detected.
ConcurrentStepSharedLayout(p) ==
    /\ ~HasFinished(calls[p])
    /\ LET q == CHOOSE k \in CallIds : k # p
           seen == IF calls[q].layout_type # "" /\ calls[p].pc = "process"
                   THEN [calls[p] EXCEPT !.layout_type = calls[q].layout_type]
                   ELSE calls[p]
       IN  calls' = [calls EXCEPT ![p] = CallStep(seen, today)]
    /\ UNCHANGED <<df_raw, sheet_name, today, pc, stage, layout_type, df_normalized, err, result,
                   cli_vars, unit_vars>>

\* The scheduler lets caller p run its next statement; the statement reads
\* and writes the locals of p only.
ConcurrentStep(p) ==
    /\ ~HasFinished(calls[p])
    /\ calls' = [calls EXCEPT ![p] = CallStep(calls[p], today)]
    /\ UNCHANGED <<df_raw, sheet_name, today, pc, stage, layout_type, df_normalized, err, result,
                   cli_vars, unit_vars>>

ConcurrentNext == \E p \in CallIds : ConcurrentStep(p)

SpecConcurrent == ConcurrentInit /\ [][ConcurrentNext]_vars

\* ------------------------------------------------------------ command line
\* A workbook on disk is [exists, readable, nrows, columns, accounts]: whether
\* the path exists, whether pd.read_excel can read it, the number of data
\* rows, the header, and the account codes its rows name.
Workbook(exists, readable, nrows, columns, accounts) ==
    [exists |-> exists, readable |-> readable, nrows |-> nrows,
     columns |-> columns, accounts |-> accounts]

MissingFile    == Workbook(FALSE, FALSE, 0, << >>, {})
UnreadableFile == Workbook(TRUE, FALSE, 0, << >>, {})

\* The four inputs, in the order load_all_workbooks loads them.
FileKinds == <<"bs", "gaap_map", "cf_map", "ap_grid">>

MappedAccounts == {"1000", "1200", "2000", "3000"}
UnmappedAccount == "5200"

BalanceSheets ==
    { MissingFile, UnreadableFile,
      Workbook(TRUE, TRUE, 0, <<"Account", "Description", "Balance", "Type">>, {}),
      Workbook(TRUE, TRUE, 4, <<"Account", "Description", "Balance", "Type">>, MappedAccounts),
      Workbook(TRUE, TRUE, 2, <<"WrongColumn">>, {}) }

GaapMappings ==
    { MissingFile, UnreadableFile,
      Workbook(TRUE, TRUE, 0, <<"GAAPAccount", "GAAPSection", "GAAPCategory">>, {}),
      Workbook(TRUE, TRUE, 4, <<"GAAPAccount", "GAAPSection", "GAAPCategory">>, MappedAccounts),
      Workbook(TRUE, TRUE, 5, <<"GAAPAccount", "GAAPSection", "GAAPCategory">>,
               MappedAccounts \cup {UnmappedAccount}) }

CashflowMappings ==
    { MissingFile, UnreadableFile,
      Workbook(TRUE, TRUE, 0, <<"Account", "CashFlowSection", "CashFlowCategory">>, {}),
      Workbook(TRUE, TRUE, 4, <<"Account", "CashFlowSection", "CashFlowCategory">>, MappedAccounts) }

ApCashGrids ==
    { MissingFile, UnreadableFile,
      Workbook(TRUE, TRUE, 0, <<"Date", "Description", "Amount", "Account">>, {}),
      Workbook(TRUE, TRUE, 1, <<"Date", "Description", "Amount", "Account">>, {"2000"}),
      Workbook(TRUE, TRUE, 2, <<"Date", "Description", "Amount", "Account">>,
               {UnmappedAccount, "2000"}) }

CommandLines ==
    { [files |-> [k \in {"bs", "gaap_map", "cf_map", "ap_grid"} |->
                    CASE k = "bs" -> b [] k = "gaap_map" -> g [] k = "cf_map" -> c [] OTHER -> a],
       out_writable |-> w, verbose |-> v] :
        b \in BalanceSheets, g \in GaapMappings, c \in CashflowMappings,
        a \in ApCashGrids, w \in BOOLEAN, v \in BOOLEAN }

\* load_workbook: the rows of the workbook, or SchemaError when the file is
\* missing, cannot be read or holds no row.
load_workbook(wb) ==
    IF ~wb.exists THEN Raise(SchemaError)
    ELSE IF ~wb.readable THEN Raise(SchemaError)
    ELSE IF wb.nrows = 0 \/ Len(wb.columns) = 0 THEN Raise(SchemaError)
    ELSE Return(wb)

\* load_beginning_bs, load_gaap_mapping, load_cashflow_mapping and
\* load_ap_cash_grid: each loads its workbook and returns the empty list.
load_entries(wb) ==
    LET df == load_workbook(wb)
    IN  IF df.err # NoError THEN [err |-> df.err, entries |-> << >>]
        ELSE [err |-> NoError, entries |-> << >>]

\* load_all_workbooks: the four loaders in order; the first error ends it.
load_all_workbooks(files) ==
    LET loaded == [i \in 1..Len(FileKinds) |-> load_entries(files[FileKinds[i]])]
    IN  IF \E i \in 1..Len(FileKinds) : loaded[i].err # NoError
        THEN [err |-> SchemaError, bundle |-> NoBundle]
        ELSE [err |-> NoError,
              bundle |-> [beginning_bs     |-> loaded[1].entries,
                          gaap_mapping     |-> loaded[2].entries,
                          cashflow_mapping |-> loaded[3].entries,
                          ap_grid_events   |-> loaded[4].entries]]

\* An Error of errors.py: file, row and issue (row 0 stands for None).
Error(file, row, issue) == [file |-> file, row |-> row, issue |-> issue]

validate_ap_grid_schema(ap_grid_events) ==
    IF Len(ap_grid_events) = 0
    THEN << Error("AP Cash Grid.xlsx", 0, "No AP grid events found") >>
    ELSE << >>

\* The validators that are placeholders return no error.
validate_beginning_bs_schema(beginning_bs)         == << >>
validate_gaap_mapping_schema(gaap_mapping)         == << >>
validate_cashflow_mapping_schema(cashflow_mapping) == << >>
validate_balance_sheet_balanced(beginning_bs)      == << >>
validate_mapping_coverage(b)                       == << >>
validate_currency_consistency(b)                   == << >>

validate_all(b) ==
    validate_beginning_bs_schema(b.beginning_bs)
        \o validate_gaap_mapping_schema(b.gaap_mapping)
        \o validate_cashflow_mapping_schema(b.cashflow_mapping)
        \o validate_ap_grid_schema(b.ap_grid_events)
        \o validate_balance_sheet_balanced(b.beginning_bs)
        \o validate_mapping_coverage(b)
        \o validate_currency_consistency(b)
\* ------------------------------------------------------- journal generator
MaxEntries == 2

COLUMNS_17_FIXED_SCHEMA ==
    << "JournalID", "TxnID", "TxnDate", "CashDate",
       "DCFlag", "GAAPAccount", "CashFlowSection",
       "Department", "Product", "CustomerID", "VendorID",
       "Location", "Class", "Amount", "CurrencyCode",
       "CreatedAt", "UpdatedAt" >>

MANDATORY_CURRENCY == "USD"

\* A BeginningBS entry and an APGridEvent; amounts are in cents, an absent
\* optional field is the empty text.
BsEntry(account, account_type, balance) ==
    [account |-> account, account_type |-> account_type, balance |-> balance]

ApEvent(transaction_date, dc_flag, amount, department, vendor_id, location) ==
    [transaction_date |-> transaction_date, dc_flag |-> dc_flag, amount |-> amount,
     department |-> department, vendor_id |-> vendor_id, location |-> location]

\* x or default
OrDefault(x, default) == IF x = "" THEN default ELSE x

\* The journal entry of a balance-sheet entry (t is the clock).
BsJournalEntry(e, t) ==
    [JournalID |-> <<"BS_", e.account>>, TxnID |-> <<"BS_", e.account, "_001">>,
     TxnDate |-> t, CashDate |-> t,
     DCFlag |-> IF e.account_type = "Asset" THEN "D" ELSE "C",
     GAAPAccount |-> e.account, CashFlowSection |-> "Operating",
     Department |-> "Corporate", Product |-> "N/A", CustomerID |-> "", VendorID |-> "",
     Location |-> "HQ", Class |-> e.account_type, Amount |-> AbsInt(e.balance),
     CurrencyCode |-> MANDATORY_CURRENCY, CreatedAt |-> t, UpdatedAt |-> t]

\* The journal entry of an AP event when n entries were made before it.
ApJournalEntry(e, n, t) ==
    [JournalID |-> <<"AP_", e.transaction_date>>, TxnID |-> <<"AP_", e.transaction_date, "_", n>>,
     TxnDate |-> e.transaction_date, CashDate |-> e.transaction_date,
     DCFlag |-> e.dc_flag,
     GAAPAccount |-> "2000", CashFlowSection |-> "Operating",
     Department |-> OrDefault(e.department, "General"), Product |-> "Cash Flow",
     CustomerID |-> "", VendorID |-> OrDefault(e.vendor_id, ""),
     Location |-> OrDefault(e.location, "HQ"), Class |-> "AP Transaction", Amount |-> e.amount,
     CurrencyCode |-> MANDATORY_CURRENCY, CreatedAt |-> t, UpdatedAt |-> t]

sample_entry(t) ==
    [JournalID |-> "SAMPLE_001", TxnID |-> "SAMPLE_TXN_001", TxnDate |-> t, CashDate |-> t,
     DCFlag |-> "D", GAAPAccount |-> "1000", CashFlowSection |-> "Operating",
     Department |-> "Corporate", Product |-> "Sample", CustomerID |-> "", VendorID |-> "",
     Location |-> "HQ", Class |-> "Sample", Amount |-> 10000,
     CurrencyCode |-> MANDATORY_CURRENCY, CreatedAt |-> t, UpdatedAt |-> t]

\* The keys of an entry dict in the order the code writes them: the columns
\* pd.DataFrame(journal_entries) has.
EntryKeys ==
    << "JournalID", "TxnID", "TxnDate", "CashDate", "DCFlag", "GAAPAccount",
       "CashFlowSection", "Department", "Product", "CustomerID", "VendorID", "Location",
       "Class", "Amount", "CurrencyCode", "CreatedAt", "UpdatedAt" >>

InSeq(x, q) == \E i \in 1..Len(q) : q[i] = x

journal_entries(b, t) ==
    [i \in 1..Len(b.beginning_bs) |-> BsJournalEntry(b.beginning_bs[i], t)]
    \o [j \in 1..Len(b.ap_grid_events) |->
          ApJournalEntry(b.ap_grid_events[j], Len(b.beginning_bs) + j - 1, t)]

\* The frame after the padding loop and the reordering: journal_df[schema]
\* keeps the schema's columns in the schema's order.
Reordered(columns, rows) ==
    LET padded == columns \o SelectSeq(COLUMNS_17_FIXED_SCHEMA, LAMBDA c : ~InSeq(c, columns))
    IN  [columns |-> SelectSeq(COLUMNS_17_FIXED_SCHEMA, LAMBDA c : InSeq(c, padded)),
         rows |-> rows]

\* Mutant of build_projected_journal: no sample entry stands in for an empty
\* list of entries.
BuildWithoutSample(b, t) ==
    LET entries == journal_entries(b, t)
    IN  IF Len(entries) > 0 THEN Reordered(EntryKeys, entries)
        ELSE Reordered(<< >>, << >>)

build_projected_journal(b, t) ==
    LET entries == journal_entries(b, t)
    IN  IF Len(entries) > 0 THEN Reordered(EntryKeys, entries)
        ELSE Reordered(EntryKeys, << sample_entry(t) >>)

\* ------------------------------------------------------------------ main()
\* What main() prints on stderr for an exception of class type carrying the
\* Error list errs (format_error_json), and for any other exception.
format_error_json(type, errs) ==
    [status |-> "error",
     errors |-> IF Len(errs) > 0
                THEN [i \in 1..Len(errs) |-> [type |-> type, message |-> errs[i].issue]]
                ELSE << [type |-> type, message |-> "str(e)"] >>]

UnexpectedErrorJson ==
    [status |-> "error", errors |-> << [type |-> "UnexpectedError", message |-> "str(e)"] >>]

\* print(f"Error: {error_msg}", file=sys.stderr): a line that is no JSON
\* object; k is the input file that was not found.
PlainErrorLine(k) ==
    [status |-> "text", message |-> <<"Error: Input file not found: ", k>>, errors |-> << >>]

\* A record the logger's StreamHandler(sys.stderr) writes: the formatted line
\* without its timestamp.
LogLine(level, message) ==
    [status |-> "log", name |-> "src.cli", level |-> level, message |-> message,
     errors |-> << >>]

\* logger.info(message): written when --verbose set the level to INFO, dropped
\* at the level WARNING.
Info(message) == IF args.verbose THEN << LogLine("INFO", message) >> ELSE << >>

\* logger.error(message)
LogError(message) == << LogLine("ERROR", message) >>

Exit(code, printed) ==
    /\ exit_code' = code
    /\ stderr' = stderr \o printed
    /\ cli_pc' = "exited"

normaliser_vars ==
    <<df_raw, sheet_name, today, pc, stage, layout_type, df_normalized, err, result, calls>>

\* The keys of input_files in the order the existence check runs over them.
InputFiles == <<"ap_grid", "bs", "gaap_map", "cf_map">>

\* for file_type, file_path in input_files.items(): the first missing file is
\* logged and printed, then sys.exit(1); else the first two progress messages.
CheckFiles ==
    /\ cli_pc = "files"
    /\ LET missing == SelectSeq(InputFiles, LAMBDA k : ~args.files[k].exists)
       IN  IF Len(missing) > 0
           THEN Exit(1, LogError(<<"Input file not found: ", missing[1]>>)
                        \o << PlainErrorLine(missing[1]) >>)
           ELSE /\ cli_pc' = "load"
                /\ stderr' = stderr \o Info("Starting projected journal generation")
                                    \o Info("Loading workbooks...")
                /\ UNCHANGED exit_code
    /\ UNCHANGED <<args, bundle, validation, journal, out_file, normaliser_vars, unit_vars>>

\* bundle = load_all_workbooks(...), and the ValidationError handler
LoadWorkbooks ==
    /\ cli_pc = "load"
    /\ LET r == load_all_workbooks(args.files)
       IN  IF r.err # NoError
           THEN /\ Exit(1, LogError(<<"Validation error: ", "str(e)">>)
                           \o << format_error_json(r.err, << >>) >>)
                /\ UNCHANGED bundle
           ELSE /\ bundle' = r.bundle
                /\ cli_pc' = "validate"
                /\ stderr' = stderr \o Info("Validating data...")
                /\ UNCHANGED exit_code
    /\ UNCHANGED <<args, validation, journal, out_file, normaliser_vars, unit_vars>>

\* validate_all(bundle): the returned list is bound to no name.
ValidateData ==
    /\ cli_pc = "validate"
    /\ validation' = validate_all(bundle)
    /\ cli_pc' = "generate"
    /\ stderr' = stderr \o Info("Generating projected journal...")
    /\ UNCHANGED <<args, bundle, journal, exit_code, out_file, normaliser_vars, unit_vars>>

\* journal = build_projected_journal(bundle)
GenerateJournal ==
    /\ cli_pc = "generate"
    /\ journal' = build_projected_journal(bundle, today)
    /\ cli_pc' = "export"
    /\ stderr' = stderr \o Info("Exporting to {args.out}...")
    /\ UNCHANGED <<args, bundle, validation, exit_code, out_file, normaliser_vars, unit_vars>>

\* write_excel(journal, output_path), the success messages and the handler
\* of any other exception
ExportJournal ==
    /\ cli_pc = "export"
    /\ IF Len(journal.rows) = 0 \/ Len(journal.columns) = 0 \/ ~args.out_writable
       THEN /\ Exit(1, LogError(<<"Unexpected error: ", "str(e)">>) \o << UnexpectedErrorJson >>)
            /\ UNCHANGED out_file
       ELSE /\ out_file' = [written |-> TRUE, table |-> journal]
            /\ Exit(0, Info("Successfully generated journal: {args.out}")
                        \o Info(<<"Journal contains {n} entries", Len(journal.rows)>>))
    /\ UNCHANGED <<args, bundle, validation, journal, normaliser_vars, unit_vars>>

NormaliserIdle ==
    /\ df_raw = BuildGrid(<< >>, << >>)
    /\ sheet_name = NoHint
    /\ pc = "done"
    /\ stage = 0
    /\ layout_type = ""
    /\ df_normalized = NoTable
    /\ err = NoError
    /\ result = NoTable
    /\ calls = NoCalls

CliInit ==
    /\ args \in CommandLines
    /\ cli_pc = "files"
    /\ bundle = NoBundle
    /\ validation = << >>
    /\ journal = NoJournal
    /\ exit_code = NoExit
    /\ stderr = << >>
    /\ out_file = NoOutput
    /\ today \in RunDates
    /\ NormaliserIdle
    /\ UnitIdle

CliNext ==
    \/ CheckFiles
    \/ LoadWorkbooks
    \/ ValidateData
    \/ GenerateJournal
    \/ ExportJournal

SpecCli == CliInit /\ [][CliNext]_vars

\* build_projected_journal called on any bundle, and the export of what it
\* returns.
BsEntries ==
    { BsEntry("1000", "Asset", 1000000),
      BsEntry("2000", "Liability", -300000),
      BsEntry("3000", "Equity", -700000) }

ApEvents ==
    { ApEvent(19729, "C", 150000, "", "", ""),
      ApEvent(19736, "D", 200000, "Ops", "V-17", "NYC") }

Bundles ==
    { [beginning_bs |-> bs, gaap_mapping |-> << >>, cashflow_mapping |-> << >>,
       ap_grid_events |-> ap] :
        bs \in SeqsUpTo(BsEntries, MaxEntries), ap \in SeqsUpTo(ApEvents, MaxEntries) }

GeneratorInit ==
    /\ args \in { [files |-> << >>, out_writable |-> w, verbose |-> v] :
                    w \in BOOLEAN, v \in BOOLEAN }
    /\ cli_pc = "generate"
    /\ bundle \in Bundles
    /\ validation = << >>
    /\ journal = NoJournal
    /\ exit_code = NoExit
    /\ stderr = Info("Starting projected journal generation") \o Info("Loading workbooks...")
                \o Info("Validating data...") \o Info("Generating projected journal...")
    /\ out_file = NoOutput
    /\ today \in RunDates
    /\ NormaliserIdle
    /\ UnitIdle

GeneratorNext ==
    \/ GenerateJournal
    \/ ExportJournal

SpecGenerator == GeneratorInit /\ [][GeneratorNext]_vars

\* --------------------------------------------------------- amount validator
MaxAmounts == 2
MaxDecimalPlaces == 2
FirstDataRow == 2

\* A finite Decimal: its value is coef * 10^exp, and exp is what
\* as_tuple().exponent returns.
Decimal(coef, exp) == [coef |-> coef, exp |-> exp]

TooManyPlaces(amount) == amount.exp < -MaxDecimalPlaces
NotPositive(amount) == amount.coef <= 0

PrecisionError(i, amount) ==
    [file |-> "AP Cash Grid.xlsx", row |-> i - 1 + FirstDataRow,
     issue |-> <<"Amount has too many decimal places: ", amount>>]

PositiveError(i, amount) ==
    [file |-> "AP Cash Grid.xlsx", row |-> i - 1 + FirstDataRow,
     issue |-> <<"Amount must be positive: ", amount>>]

\* Mutant of validate_amount_precision: the second check is an elif, so an
\* amount yields at most one error.
ValidateOneErrorPerAmount(as) ==
    LET RECURSIVE upto(_)
        upto(i) ==
            IF i = 0 THEN << >>
            ELSE upto(i - 1)
                 \o (IF TooManyPlaces(as[i]) THEN << PrecisionError(i, as[i]) >>
                     ELSE IF NotPositive(as[i]) THEN << PositiveError(i, as[i]) >>
                     ELSE << >>)
    IN  upto(Len(as))

\* The loop over enumerate(amounts); i is 1-based here.
validate_amount_precision(as) ==
    LET RECURSIVE upto(_)
        upto(i) ==
            IF i = 0 THEN << >>
            ELSE upto(i - 1)
                 \o (IF TooManyPlaces(as[i]) THEN << PrecisionError(i, as[i]) >> ELSE << >>)
                 \o (IF NotPositive(as[i]) THEN << PositiveError(i, as[i]) >> ELSE << >>)
    IN  upto(Len(as))

ValidateAmountPrecision ==
    /\ unit_pc = "call"
    /\ errors' = validate_amount_precision(amounts)
    /\ unit_pc' = "returned"
    /\ UNCHANGED <<amounts, normaliser_vars, cli_vars>>

\* 100.00-style amounts: positive, zero and negative coefficients with three,
\* two, one and no decimal places.
Decimals ==
    { Decimal(coef, exp) : coef \in {-5000, 0, 25123}, exp \in {-3, -2, -1, 0} }

ValidatorInit ==
    /\ amounts \in SeqsUpTo(Decimals, MaxAmounts)
    /\ errors = << >>
    /\ unit_pc = "call"
    /\ today \in RunDates
    /\ NormaliserIdle
    /\ CliIdle

ValidatorNext == ValidateAmountPrecision

SpecValidator == ValidatorInit /\ [][ValidatorNext]_vars

\* ------------------------------------------- the column classifier's grids
Col_DueDateNum    == ColSpec(Name_Due_Date, TRUE, "datenum", 0)
Col_TotalNum      == ColSpec(Name_Total, TRUE, "week", LongwaveColumns)
Col_VendorBalance == ColSpec(Name_Vendor_Balance, TRUE, "week", LongwaveColumns + 1)
Col_AmountDue     == ColSpec(Name_Amount_Due, TRUE, "amt", 0)
Col_MonthlyTotal  == ColSpec(Name_Monthly_Total, FALSE, "txtamt", 0)
Col_Year          == ColSpec(Name_Year, TRUE, "datenum", 0)
Col_Qty           == ColSpec(Name_Qty, TRUE, "week", LongwaveColumns - 1)
Col_When          == ColSpec(Name_When, FALSE, "date", 0)
Col_Memo          == ColSpec(Name_Memo, FALSE, "junk", 0)

ClassifierColumns ==
    { Col_Date, Col_DueDateNum, Col_Amount, Col_TotalNum, Col_Vendor,
      Col_VendorBalance, Col_AmountDue, Col_MonthlyTotal }

\* Every arrangement of one, two or three different columns of the
\* catalogue, and some grids with the columns outside it.
ClassifierLayouts ==
    { <<a>> : a \in ClassifierColumns }
    \cup { q \in ClassifierColumns \X ClassifierColumns : q[1] # q[2] }
    \cup { q \in ClassifierColumns \X ClassifierColumns \X ClassifierColumns :
             q[1] # q[2] /\ q[1] # q[3] /\ q[2] # q[3] }
    \cup { <<Col_Date, Col_Amount, Col_Memo, Col_Vendor>>,
           <<Col_Date, Col_Amount, Col_Vendor, Col_Memo>>,
           <<Col_Date, Col_MonthlyTotal, Col_Year, Col_Qty>>,
           <<Col_When, Col_Date, Col_Amount>>,
           <<Col_When, Col_Qty>>,
           <<Col_Vendor>> \o Weeks(LongwaveColumns) }

\* A source row with a date, one whose date cell reads "TBD", and one with a
\* blank counterparty.
ClassifierRows ==
    { [date |-> DStr(19724),   cp |-> Txt(DefInc), amt |-> Num(1000)],
      [date |-> Txt(Pending),  cp |-> Txt(DefInc), amt |-> Num(3000)] }

ClassifierGrids ==
    { BuildGrid(layout, rows) :
        layout \in ClassifierLayouts, rows \in SeqsUpTo(ClassifierRows, MaxRows) }

ColumnsInit ==
    /\ df_raw \in ClassifierGrids
    /\ sheet_name = NoHint
    /\ today \in RunDates
    /\ pc = "start"
    /\ stage = 0
    /\ layout_type = ""
    /\ df_normalized = NoTable
    /\ err = NoError
    /\ result = NoTable
    /\ calls = NoCalls
    /\ CliIdle
    /\ UnitIdle

SpecColumns == ColumnsInit /\ [][Next]_vars

\* ===================================================================
\* Properties
\* ===================================================================
Finished == pc \in {"done", "failed"}

RowsOf(tb) == { tb.rows[i] : i \in 1..Len(tb.rows) }

NumericCount(df) == Cardinality({ i \in 1..Len(df.cols) : df.cols[i].numeric })
HasDateLike(df)   == \E i \in 1..Len(df.cols) : IsDateColumn(df.cols[i])
HasAmountLike(df) == \E i \in 1..Len(df.cols) : IsAmountColumn(df.cols[i])

\* The source row (1-based) an intermediate row with index label idx came from.
SourceRowOf(idx) ==
    IF layout_type = "simple_list" THEN idx + 1 ELSE (idx % df_raw.nrows) + 1

\* The numeric value of the source cell an intermediate row's amount was read from.
SourceAmount(idx) ==
    IF layout_type = "simple_list"
    THEN ToNumeric(df_raw.cols[_find_amount_columns(df_raw)[1]].cells[idx + 1])
    ELSE df_raw.cols[NumericCols(df_raw)[(idx \div df_raw.nrows) + 1]].cells[SourceRowOf(idx)]

\* The positions of the column the counterparty is read from (none or one).
CounterpartySource ==
    IF layout_type = "simple_list"
    THEN LET m == SelectSeq(Indexes(Len(df_raw.cols)), LAMBDA i : IsCounterpartyColumn(df_raw.cols[i]))
         IN  IF Len(m) = 0 THEN {} ELSE {m[1]}
    ELSE LET m == SelectSeq(Indexes(Len(df_raw.cols)), LAMBDA i : ~df_raw.cols[i].numeric)
         IN  IF Len(m) = 0 THEN {} ELSE {m[1]}

BlankCell(c) == IsNull(c) \/ (c.k = "txt" /\ c.s = << >>)

\* ------------------------------------------------------------------- C1
\* C1: every row of a returned table has an amount strictly greater than 0
\* after quantization to 2 fractional digits, also when the source amount is
\* below half a cent.
C1_AmountStrictlyPositive ==
    pc = "done" =>
        \A row \in RowsOf(result) : row.amount.k = "num" /\ row.amount.n > 0

\* ------------------------------------------------------------------- C2
\* C2: in every returned table, on both layout paths, counterparty is never
\* null and never empty, and a source row whose counterparty cell is blank or
\* an empty string is returned with counterparty exactly "Unknown".
C2_BlankCounterpartyIsUnknown ==
    pc = "done" =>
        \A row \in RowsOf(result) :
            /\ ~BlankCell(row.counterparty)
            /\ \A c \in CounterpartySource :
                   BlankCell(df_raw.cols[c].cells[SourceRowOf(row.idx)])
                       => row.counterparty = Txt(Unknown)

\* ------------------------------------------------------------------- C3
\* C3: a failing call fails with SchemaError or UnsupportedGridFormat and with
\* no other kind of exception, and returns no table.
C3_OnlyTwoErrorKinds ==
    pc = "failed" => /\ err \in {SchemaError, UnsupportedGridFormat}
                     /\ result = NoTable

\* ------------------------------------------------------------------- C4
\* The rows of an event-list grid whose date cell spells no date, and those
\* that are valid (a date that parses and a non-zero numeric amount).
BadDateRows ==
    { r \in 1..df_raw.nrows : ~DateParses(df_raw.cols[_find_date_columns(df_raw)[1]].cells[r]) }
ValidRows ==
    { r \in 1..df_raw.nrows :
        /\ df_raw.cols[_find_date_columns(df_raw)[1]].cells[r].k = "dstr"
        /\ SourceAmount(r - 1).k = "num"
        /\ SourceAmount(r - 1).n # 0 }

\* C4: for an event-list grid with exactly one row whose date cannot be parsed
\* and all other rows valid, the call raises no error and returns exactly the
\* other rows.
C4_BadDateRowDropped ==
    (/\ Finished
     /\ layout_type = "simple_list"
     /\ Cardinality(BadDateRows) = 1
     /\ Cardinality(ValidRows) = df_raw.nrows - 1)
    => /\ pc = "done"
       /\ err = NoError
       /\ { row.idx + 1 : row \in RowsOf(result) } = ValidRows
       /\ Len(result.rows) = df_raw.nrows - 1

\* ------------------------------------------------------------------- C5
\* C5: once layout detection has run, a grid with exactly 13 numeric columns is
\* wide-time-series whatever its column names, also when it has a date-like
\* and an amount-like column or a numeric column named "Date".
C5_ThirteenNumericIsLongwave ==
    (layout_type # "" /\ NumericCount(df_raw) = 13) => layout_type = "longwave"

\* C5 witness: detection answered longwave for a grid one of whose 13 numeric
\* columns is date-like and which also has an amount-like column.
C5_Witness ==
    /\ layout_type = "longwave"
    /\ NumericCount(df_raw) = 13
    /\ \E i \in 1..Len(df_raw.cols) : df_raw.cols[i].numeric /\ IsDateColumn(df_raw.cols[i])
    /\ HasAmountLike(df_raw)

\* ------------------------------------------------------------------- C6
\* C6: once layout detection has run, a grid whose number of numeric columns
\* is not 13 is never wide-time-series; it is event-list exactly when it has a
\* date-like and an amount-like column, and unsupported otherwise.
C6_NotThirteenFallsThrough ==
    (layout_type # "" /\ NumericCount(df_raw) # 13) =>
        /\ layout_type # "longwave"
        /\ layout_type = "simple_list" <=> (HasDateLike(df_raw) /\ HasAmountLike(df_raw))
        /\ layout_type = "unknown" <=> ~(HasDateLike(df_raw) /\ HasAmountLike(df_raw))

\* C6 witness: a grid with 14 numeric columns was classified event-list.
C6_Witness ==
    /\ NumericCount(df_raw) = 14
    /\ layout_type = "simple_list"

\* ------------------------------------------------------------------- C7
HintHas(pat) == Contains(Lower(sheet_name.s), pat)
HintGiven == ~sheet_name.none /\ sheet_name.s # << >>
Typed == HasColumn(df_normalized, "txn_type")

\* C7: with a non-empty hint whose lowercased text contains "payable" or "ap"
\* every row is typed AP whatever its sign; otherwise, if it contains
\* "receivable" or "ar", every row is typed AR; the AP test comes first.
C7_HintOverridesSign ==
    (Typed /\ HintGiven) =>
        /\ (HintHas(<<"p","a","y","a","b","l","e">>) \/ HintHas(<<"a","p">>))
              => \A row \in RowsOf(df_normalized) : row.txn_type = "AP"
        /\ (/\ ~(HintHas(<<"p","a","y","a","b","l","e">>) \/ HintHas(<<"a","p">>))
            /\ (HintHas(<<"r","e","c","e","i","v","a","b","l","e">>) \/ HintHas(<<"a","r">>)))
              => \A row \in RowsOf(df_normalized) : row.txn_type = "AR"

\* C7 witness: a returned table, under a hint matching both "ap" and "ar",
\* with a row typed AP whose source amount is positive.
C7_Witness ==
    /\ pc = "done"
    /\ HintGiven /\ HintHas(<<"a","p">>) /\ HintHas(<<"a","r">>)
    /\ \E row \in RowsOf(result) :
          row.txn_type = "AP" /\ SourceAmount(row.idx).n > 0

\* ------------------------------------------------------------------- C8
WordChar(c) == (\E i \in 1..Len(LowerChars) : LowerChars[i] = c)
               \/ (\E i \in 1..Len(DigitChars) : DigitChars[i] = c)

\* tok occurs in s as a standalone token: not inside a longer word.
HasToken(s, tok) ==
    \E i \in 1..(Len(s) - Len(tok) + 1) :
        /\ SubSeq(s, i, i + Len(tok) - 1) = tok
        /\ (i = 1 \/ ~WordChar(s[i - 1]))
        /\ (i + Len(tok) > Len(s) \/ ~WordChar(s[i + Len(tok)]))

TypedBySign ==
    \A row \in RowsOf(df_normalized) :
        row.txn_type = (IF SourceAmount(row.idx).n >= 0 THEN "AR" ELSE "AP")

\* C8 as stated: with no hint, or a hint containing neither "payable" nor
\* "receivable" nor the standalone token "ap" or "ar", each row is typed by
\* its own amount sign (>= 0 gives AR, < 0 gives AP).
C8_TokenReading ==
    (/\ Typed
     /\ \/ ~HintGiven
        \/ /\ ~HintHas(<<"p","a","y","a","b","l","e">>) /\ ~HintHas(<<"r","e","c","e","i","v","a","b","l","e">>)
           /\ ~HasToken(Lower(sheet_name.s), <<"a","p">>)
           /\ ~HasToken(Lower(sheet_name.s), <<"a","r">>))
    => TypedBySign

\* C8 amended: with no hint, or a hint whose lowercased text contains none of
\* "payable", "ap", "receivable", "ar" anywhere (inside a longer word
\* included), each row is typed by its own amount sign.
C8_SubstringReading ==
    (/\ Typed
     /\ \/ ~HintGiven
        \/ /\ ~HintHas(<<"p","a","y","a","b","l","e">>) /\ ~HintHas(<<"r","e","c","e","i","v","a","b","l","e">>)
           /\ ~HintHas(<<"a","p">>) /\ ~HintHas(<<"a","r">>))
    => TypedBySign

\* C8 witness: a table returned under a non-empty hint that matches nothing,
\* with a row typed AR from a positive and a row typed AP from a negative amount.
C8_Witness ==
    /\ pc = "done"
    /\ HintGiven
    /\ ~HintHas(<<"a","p">>) /\ ~HintHas(<<"a","r">>)
    /\ \E row \in RowsOf(result) : row.txn_type = "AR" /\ SourceAmount(row.idx).n > 0
    /\ \E row \in RowsOf(result) : row.txn_type = "AP" /\ SourceAmount(row.idx).n < 0

\* ------------------------------------------------------------------- C9
\* The index labels of the source cells that reach the output: a numeric,
\* non-zero amount and, in an event list, a date that is not blank.
SurvivingIndexes ==
    { m \in 0..(IF layout_type = "simple_list" THEN df_raw.nrows
                ELSE LongwaveColumns * df_raw.nrows) - 1 :
        /\ SourceAmount(m).k = "num"
        /\ SourceAmount(m).n # 0
        /\ layout_type = "simple_list" =>
              ~IsNull(ToDate(df_raw.cols[_find_date_columns(df_raw)[1]].cells[m + 1])) }

\* C9: with no hint the type is decided from the signed source amount before
\* the sign is discarded: a source amount a < 0 yields a row typed AP with
\* amount |a|, a source amount a > 0 a row typed AR with amount a (the amount
\* as the 2-digit decimal of the output, which is |a| itself when a is a
\* whole number of cents).
C9_TypedBeforeSignDiscarded ==
    (pc = "done" /\ ~HintGiven) =>
        /\ { row.idx : row \in RowsOf(result) } = SurvivingIndexes
        /\ \A row \in RowsOf(result) :
              LET a == SourceAmount(row.idx).n
              IN  /\ a < 0 => /\ row.txn_type = "AP"
                              /\ row.amount = Num(Quantize(-a))
                              /\ (-a) % CentMills = 0 => row.amount = Num(-a)
                  /\ a > 0 => /\ row.txn_type = "AR"
                              /\ row.amount = Num(Quantize(a))
                              /\ a % CentMills = 0 => row.amount = Num(a)

\* C9 witness: a table returned with no hint holding a row typed AP with
\* amount |a| from a negative a and a row typed AR with amount a.
C9_Witness ==
    /\ pc = "done" /\ sheet_name.none
    /\ \E row \in RowsOf(result) :
          /\ SourceAmount(row.idx).n < 0
          /\ row.txn_type = "AP" /\ row.amount = Num(-SourceAmount(row.idx).n)
    /\ \E row \in RowsOf(result) :
          /\ SourceAmount(row.idx).n > 0
          /\ row.txn_type = "AR" /\ row.amount = SourceAmount(row.idx)

\* ------------------------------------------------------------------ C10
NoRowsOrNoColumns == df_raw.nrows = 0 \/ Len(df_raw.cols) = 0

\* C10: on an empty grid (zero rows or zero columns) the call fails with
\* SchemaError before layout detection runs, whatever the columns, and
\* returns no table.
C10_EmptyGridSchemaError ==
    (NoRowsOrNoColumns /\ pc # "start") =>
        /\ pc = "failed"
        /\ err = SchemaError
        /\ layout_type = ""
        /\ result = NoTable

\* C10 witness: the call failed on a grid with columns and no rows.
C10_Witness ==
    /\ pc = "failed"
    /\ df_raw.nrows = 0
    /\ Len(df_raw.cols) = 2

\* ------------------------------------------------------------------ C11
\* C11: a non-empty grid that does not have exactly 13 numeric columns and
\* lacks a date-like column or lacks an amount-like column ends the call with
\* UnsupportedGridFormat and no table; no layout is substituted for it and no
\* processor runs on it.
C11_UnclassifiableIsUnsupported ==
    ( /\ ~NoRowsOrNoColumns
      /\ NumericCount(df_raw) # LongwaveColumns
      /\ ~(HasDateLike(df_raw) /\ HasAmountLike(df_raw)) ) =>
        /\ layout_type \in {"", "unknown"}
        /\ df_normalized = NoTable
        /\ result = NoTable
        /\ pc # "done"
        /\ pc = "failed" => err = UnsupportedGridFormat
        /\ pc \in {"start", "detect", "process", "failed"}

\* C11 witness: the call failed with UnsupportedGridFormat on a grid of 12
\* numeric period columns and a text column, which has amount-like columns
\* and no date-like column.
C11_Witness ==
    /\ pc = "failed"
    /\ err = UnsupportedGridFormat
    /\ layout_type = "unknown"
    /\ df_raw.nrows > 0
    /\ NumericCount(df_raw) = LongwaveColumns - 1
    /\ HasAmountLike(df_raw)
    /\ ~HasDateLike(df_raw)

\* ------------------------------------------------------------------ C12
\* The cells of the 13 period columns, as (period position, source row), whose
\* value is neither null nor exactly zero.
ActivePeriodCells(df) ==
    { cell \in (1..LongwaveColumns) \X (1..df.nrows) :
        LET c == df.cols[NumericCols(df)[cell[1]]].cells[cell[2]]
        IN  c.k = "num" /\ c.n # 0 }

\* The cell an unpivoted row with index label idx was read from.
CellOf(df, idx) == << (idx \div df.nrows) + 1, (idx % df.nrows) + 1 >>

\* C12: for a wide time-series grid the returned table has as many rows as
\* the 13 period columns have cells that are neither null nor exactly zero;
\* each such cell gives exactly one row and no other row is returned.
C12_OneRowPerActiveCell ==
    (pc = "done" /\ layout_type = "longwave") =>
        /\ Len(result.rows) = Cardinality(ActivePeriodCells(df_raw))
        /\ { CellOf(df_raw, row.idx) : row \in RowsOf(result) } = ActivePeriodCells(df_raw)

\* C12 witness: a wide time-series call returned while its period columns
\* hold a null cell, a zero cell, a negative cell and a sub-cent cell.
C12_Witness ==
    /\ pc = "done"
    /\ layout_type = "longwave"
    /\ Len(result.rows) >= 2
    /\ LET cells == { df_raw.cols[NumericCols(df_raw)[i]].cells[r] :
                        i \in 1..LongwaveColumns, r \in 1..df_raw.nrows }
       IN  /\ NaN \in cells
           /\ Num(0) \in cells
           /\ \E c \in cells : c.k = "num" /\ c.n < 0
           /\ \E c \in cells : c.k = "num" /\ c.n > 0 /\ c.n < CentMills

\* ------------------------------------------------------------------ C13
\* C13: in a wide time-series result the line_source of a row is the
\* positional index of the original grid row its cell came from, a colon, and
\* the name of the cell's period column, so rows unpivoted from one source
\* row carry the same row index.
C13_LineSourceNamesOriginalRow ==
    (pc = "done" /\ layout_type = "longwave") =>
        \A row \in RowsOf(result) :
            LET cell == CellOf(df_raw, row.idx)
            IN  row.line_source =
                    Digits(cell[2] - 1) \o <<":">>
                        \o df_raw.cols[NumericCols(df_raw)[cell[1]]].name

\* ------------------------------------------------------------------ C14
\* The rows of the returned table read from the period column at position i
\* (0-indexed among the 13 numeric columns).
RowsOfPeriod(i) == { row \in RowsOf(result) : CellOf(df_raw, row.idx)[1] = i + 1 }

\* C14: in a wide time-series result every row read from the period column
\* at left-to-right position i is scheduled on the run date plus 7*i days,
\* whatever the column's header, so the rows of two neighbouring periods lie
\* exactly 7 days apart.
C14_PeriodDateByPosition ==
    (pc = "done" /\ layout_type = "longwave") =>
        /\ \A i \in 0..(LongwaveColumns - 1) : \A row \in RowsOfPeriod(i) :
              /\ row.scheduled_date = Date(today + DaysPerWeek * i)
              /\ row.line_source =
                    Digits(row.idx) \o <<":">> \o df_raw.cols[NumericCols(df_raw)[i + 1]].name
        /\ \A i \in 0..(LongwaveColumns - 2) :
              \A a \in RowsOfPeriod(i), b \in RowsOfPeriod(i + 1) :
                  b.scheduled_date.n - a.scheduled_date.n = DaysPerWeek

\* C14 witness: a wide time-series call returned rows of the first two and of
\* the last period position from a grid whose last period column is headed
\* Week_12, the first period column being the numeric column headed Date.
C14_Witness ==
    /\ pc = "done"
    /\ layout_type = "longwave"
    /\ df_raw.cols[NumericCols(df_raw)[1]].name = Name_Date
    /\ df_raw.cols[NumericCols(df_raw)[LongwaveColumns]].name = WeekName(LongwaveColumns - 1)
    /\ RowsOfPeriod(0) # {}
    /\ RowsOfPeriod(1) # {}
    /\ RowsOfPeriod(LongwaveColumns - 1) # {}

\* ------------------------------------------------------------------ C15
AllColumnsNumeric(df) == \A i \in 1..Len(df.cols) : df.cols[i].numeric

\* C15: a non-empty grid of exactly 13 numeric columns and no other column
\* is classified wide time-series and the call then fails with
\* UnsupportedGridFormat: it is never handed to the event-list processor and
\* no table, hence no counterparty, is made for it.
C15_NoTextColumnRejected ==
    ( /\ ~NoRowsOrNoColumns
      /\ NumericCount(df_raw) = LongwaveColumns
      /\ AllColumnsNumeric(df_raw) ) =>
        /\ layout_type \in {"", "longwave"}
        /\ pc \in {"process", "failed"} => layout_type = "longwave"
        /\ pc \in {"start", "detect", "process", "failed"}
        /\ pc = "failed" => err = UnsupportedGridFormat
        /\ df_normalized = NoTable
        /\ result = NoTable

\* C15 witness: the call failed with UnsupportedGridFormat after classifying
\* a grid of 13 numeric columns, with rows, as wide time-series.
C15_Witness ==
    /\ pc = "failed"
    /\ err = UnsupportedGridFormat
    /\ layout_type = "longwave"
    /\ df_raw.nrows = MaxRows
    /\ Len(df_raw.cols) = LongwaveColumns
    /\ AllColumnsNumeric(df_raw)

\* ------------------------------------------------------------------ C16
\* The canonical columns the table in hand lacks.
MissingColumns(tb) ==
    { required_cols[i] : i \in 1..Len(required_cols) } \ { tb.columns[i] : i \in 1..Len(tb.columns) }

\* C16: when the canonicalizer is given a table that lacks one of the five
\* canonical columns, whichever it is, the call fails with SchemaError and
\* with no other kind of error, and no table is returned.
C16_MissingColumnIsSchemaError ==
    (pc # "post" /\ MissingColumns(df_normalized) # {}) =>
        /\ pc = "failed"
        /\ err = SchemaError
        /\ result = NoTable

\* ------------------------------------------------------------------ C17
\* The rows of the table handed to the canonicalizer whose amount is not zero.
NonZeroRows(tb) == SelectSeq(tb.rows, LAMBDA row : row.amount # Num(0))

\* out is a whole number of cents nearest to a; a tie goes to the even cent.
NearestCentTieEven(a, out) ==
    /\ out % CentMills = 0
    /\ 2 * AbsInt(out - a) <= CentMills
    /\ 2 * AbsInt(out - a) = CentMills => (out \div CentMills) % 2 = 0

\* out is a whole number of cents nearest to a; a tie goes away from zero.
NearestCentTieUp(a, out) ==
    /\ out % CentMills = 0
    /\ 2 * AbsInt(out - a) <= CentMills
    /\ 2 * AbsInt(out - a) = CentMills => AbsInt(out) > AbsInt(a)

\* The canonicalizer has returned its table.
Canonicalized == pc \in {"post", "done"} /\ stage > CleanupStage

\* C17 as stated: every amount of the canonicalized table is the source
\* amount rounded to the nearest cent, an amount exactly halfway between two
\* cents going to the cent of larger magnitude, and no row has a zero source
\* amount.
C17_HalfwayRoundsUp ==
    Canonicalized =>
        \A row \in RowsOf(df_normalized) :
            LET a == CleanupCatalogue[row.idx + 1].amount.n
            IN  a # 0 /\ row.amount.k = "num" /\ NearestCentTieUp(a, row.amount.n)

\* C17 amended: the canonicalizer removes exactly the rows whose amount is
\* zero before rounding and turns every other amount into a whole number of
\* cents nearest to it, an amount exactly halfway between two cents going to
\* the even cent (ROUND_HALF_EVEN).
C17_HalfwayRoundsToEven ==
    [][ (AtStep("cleanup") /\ pc' # "failed") =>
          LET kept == NonZeroRows(df_normalized)
              out  == df_normalized'.rows
          IN  /\ Len(out) = Len(kept)
              /\ \A i \in 1..Len(kept) :
                    /\ out[i].idx = kept[i].idx
                    /\ out[i].amount.k = "num"
                    /\ NearestCentTieEven(kept[i].amount.n, out[i].amount.n) ]_vars

\* C17 witness: the canonicalizer returned 0.125 as 0.12, 0.135 as 0.14 and
\* -0.125 as -0.12, having dropped the zero row.
C17_Witness ==
    /\ Canonicalized
    /\ \A row \in RowsOf(df_normalized) : row.idx # 1
    /\ \E row \in RowsOf(df_normalized) :
          row.idx = 3 /\ row.amount = Num(12 * CentMills)
    /\ \E row \in RowsOf(df_normalized) :
          row.idx = 4 /\ row.amount = Num(14 * CentMills)
    /\ \E row \in RowsOf(df_normalized) :
          row.idx = 5 /\ row.amount = Num(-12 * CentMills)

\* ------------------------------------------------------------------ C18
\* C18: every row of a returned table has txn_type "AP" or "AR", for every
\* grid, both layouts and every hint, also a hint matching neither keyword.
C18_TypeIsPayableOrReceivable ==
    pc = "done" => \A row \in RowsOf(result) : row.txn_type \in {"AP", "AR"}

\* C18 witness: a call whose hint matches neither keyword returned a table
\* holding a payable and a receivable.
C18_Witness ==
    /\ pc = "done"
    /\ sheet_name = Hint(<<"S","h","e","e","t","1">>)
    /\ \E row \in RowsOf(result) : row.txn_type = "AP"
    /\ \E row \in RowsOf(result) : row.txn_type = "AR"

\* ------------------------------------------------------------------ C19
\* C19: no step of normalise_cash_grid changes the raw grid: its columns,
\* their order, its rows and its cells are after a call, returned or failed,
\* what they were before it.
C19_RawGridNeverMutated == [][df_raw' = df_raw]_vars

\* C19 witness: an event-list call returned rows with parsed dates while the
\* date column of the raw grid still holds the date texts.
C19_Witness ==
    /\ pc = "done"
    /\ layout_type = "simple_list"
    /\ Len(result.rows) = MaxRows
    /\ \A row \in RowsOf(result) : row.scheduled_date.k = "date"
    /\ LET date_col == df_raw.cols[_find_date_columns(df_raw)[1]]
       IN  \A r \in 1..df_raw.nrows : date_col.cells[r].k = "dstr"

\* ------------------------------------------------------------------ C20
\* The locals of the single call as a call record.
ThisCall ==
    [df_raw |-> df_raw, sheet_name |-> sheet_name, pc |-> pc, stage |-> stage,
     layout_type |-> layout_type, df_normalized |-> df_normalized, err |-> err,
     result |-> result]

\* CallStep runs the statements the steps of the single call run: under
\* Spec every step takes the call record to its CallStep.
CallStepIsTheStep ==
    [][ThisCall' = CallStep(ThisCall, today)]_vars

\* C20: whatever way the statements of two concurrent calls interleave, one
\* call running wholly before the other included, each call ends as it ends
\* when it runs alone on its grid and hint under the same run date: the same
\* returned table or the same error.
C20_CallsAreIndependent ==
    \A p \in DOMAIN calls :
        HasFinished(calls[p]) =>
            LET alone == RunAlone(calls[p].df_raw, calls[p].sheet_name, today)
            IN  /\ calls[p].pc = alone.pc
                /\ calls[p].err = alone.err
                /\ calls[p].result = alone.result

\* C20 witness: two calls on grids of different layouts have both ended, one
\* with a table and one with an error.
C20_Witness ==
    /\ DOMAIN calls = CallIds
    /\ calls[1].pc = "done" /\ Len(calls[1].result.rows) > 0
    /\ calls[2].pc = "failed" /\ calls[2].err = UnsupportedGridFormat
    /\ calls[1].layout_type # calls[2].layout_type

\* ------------------------------------------------------------ command line
SchemaWidth == 17

BsRequiredColumns == <<"Account", "Description", "Balance", "Type">>

\* Every workbook but the one of kind k loads.
OthersLoad(k) ==
    \A i \in 1..Len(FileKinds) :
        FileKinds[i] # k => load_workbook(args.files[FileKinds[i]]).err = NoError

\* stderr holds a JSON error object whose first error has this type; the
\* logger's lines and the plain error line are no JSON objects.
FirstErrorType(type) ==
    \E i \in 1..Len(stderr) :
        /\ stderr[i].status = "error"
        /\ Len(stderr[i].errors) >= 1
        /\ stderr[i].errors[1].type = type

\* The AP Cash Grid names an account the GAAP Mapping does not hold; all
\* four workbooks load and the balance sheet has its columns.
UnmappedAccountRun ==
    /\ OthersLoad("")
    /\ args.files["bs"].columns = BsRequiredColumns
    /\ \E a \in args.files["ap_grid"].accounts : a \notin args.files["gaap_map"].accounts

\* C21: a run whose AP Cash Grid references a GAAP account absent from the
\* GAAP Mapping exits with code 1, writes no output file and prints a JSON
\* error object whose first error has type MappingConflict.
C21_UnmappedAccountIsMappingConflict ==
    (cli_pc = "exited" /\ UnmappedAccountRun)
        => /\ exit_code = 1
           /\ ~out_file.written
           /\ FirstErrorType(MappingConflict)

\* The Beginning Balance Sheet has rows but lacks a required column; the
\* other three workbooks load.
MalformedBalanceSheetRun ==
    /\ OthersLoad("bs")
    /\ args.files["bs"].exists /\ args.files["bs"].readable
    /\ args.files["bs"].nrows > 0
    /\ \E i \in 1..Len(BsRequiredColumns) :
          ~InSeq(BsRequiredColumns[i], args.files["bs"].columns)

\* C22: a run whose Beginning Balance Sheet is non-empty but lacks the
\* required columns exits with code 1, writes no output file and reports an
\* error of type SchemaError.
C22_MalformedBalanceSheetIsSchemaError ==
    (cli_pc = "exited" /\ MalformedBalanceSheetRun)
        => /\ exit_code = 1
           /\ ~out_file.written
           /\ FirstErrorType(SchemaError)

\* C23: build_projected_journal returns for every bundle, the empty one
\* included, a table with exactly the 17 schema columns in schema order and
\* at least one row, and a run that exits with code 0 has written that table.
C23_JournalIsNonEmptySchemaTable ==
    /\ cli_pc \in {"export", "exited"}
         => /\ journal.columns = COLUMNS_17_FIXED_SCHEMA
            /\ Len(journal.columns) = SchemaWidth
            /\ Len(journal.rows) >= 1
            /\ \A i \in 1..Len(journal.rows) :
                  DOMAIN journal.rows[i] = { COLUMNS_17_FIXED_SCHEMA[j] : j \in 1..SchemaWidth }
    /\ (cli_pc = "exited" /\ exit_code = 0)
         => out_file = [written |-> TRUE, table |-> journal]

\* The empty bundle was turned into the one sample row and exported.
C23_Witness ==
    /\ cli_pc = "exited"
    /\ exit_code = 0
    /\ bundle.beginning_bs = << >>
    /\ bundle.ap_grid_events = << >>
    /\ out_file.written
    /\ out_file.table.rows = << sample_entry(today) >>

\* C29: the output file is written only if validate_all returned no error
\* for the loaded bundle; a run whose validation returned errors ends with
\* no output file and a non-zero exit code.
C29_ExportOnlyWhenValid ==
    /\ out_file.written => validation = << >>
    /\ (cli_pc = "exited" /\ validation # << >>)
         => (~out_file.written /\ exit_code # 0)

\* ---------------------------------------------------------------- validator
InvalidAmount(amount) == TooManyPlaces(amount) \/ NotPositive(amount)

\* C24 as stated: the number of returned errors is the number of invalid
\* amounts, an amount being invalid when it has more than 2 decimal places or
\* is not strictly positive.
C24_OneErrorPerInvalidAmount ==
    unit_pc = "returned"
        => Len(errors) = Cardinality({ i \in 1..Len(amounts) : InvalidAmount(amounts[i]) })

\* C24 amended: each amount gets one error for each rule it breaks, so the
\* number of errors of a row is the number of broken rules (0, 1 or 2) and the
\* total is the number of amounts with too many places plus the number of
\* amounts that are not positive; valid amounts get none.
C24_OneErrorPerBrokenRule ==
    unit_pc = "returned"
        => /\ Len(errors) = Cardinality({ i \in 1..Len(amounts) : TooManyPlaces(amounts[i]) })
                            + Cardinality({ i \in 1..Len(amounts) : NotPositive(amounts[i]) })
           /\ \A i \in 1..Len(amounts) :
                Cardinality({ k \in 1..Len(errors) : errors[k].row = i - 1 + FirstDataRow })
                    = (IF TooManyPlaces(amounts[i]) THEN 1 ELSE 0)
                      + (IF NotPositive(amounts[i]) THEN 1 ELSE 0)

\* A list with a valid amount and an amount breaking both rules was
\* validated.
C24_Witness ==
    /\ unit_pc = "returned"
    /\ \E i \in 1..Len(amounts) : ~InvalidAmount(amounts[i])
    /\ \E i \in 1..Len(amounts) : TooManyPlaces(amounts[i]) /\ NotPositive(amounts[i])
    /\ Len(errors) = 2

\* ------------------------------------------------------- column classifier
\* The event-list processor has just returned its table.
SimpleListProcessed ==
    /\ pc = "post"
    /\ stage = 1
    /\ layout_type = "simple_list"

FirstDateColumn == _find_date_columns(df_raw)[1]
FirstAmountColumn == _find_amount_columns(df_raw)[1]

\* The date-like and amount-like columns other than the two chosen ones.
FurtherColumns ==
    { i \in 1..Len(df_raw.cols) :
        /\ IsDateColumn(df_raw.cols[i]) \/ IsAmountColumn(df_raw.cols[i])
        /\ i \notin {FirstDateColumn, FirstAmountColumn} }

\* The grid df with every cell of the columns in which made blank; names and
\* dtypes stay.
Blanked(df, which) ==
    [df EXCEPT !.cols = [i \in 1..Len(df.cols) |->
        IF i \in which
        THEN [df.cols[i] EXCEPT !.cells = [r \in 1..df.nrows |-> NaN]]
        ELSE df.cols[i]]]

\* Every row has the date and the amount of its source row in the first
\* date-like and the first amount-like column, and names the two in its
\* line_source.
ReadsFirstColumns ==
    \A row \in RowsOf(df_normalized) :
        /\ row.scheduled_date = ToDate(df_raw.cols[FirstDateColumn].cells[row.idx + 1])
        /\ row.amount = ToNumeric(df_raw.cols[FirstAmountColumn].cells[row.idx + 1])
        /\ row.line_source = Digits(row.idx) \o <<":">> \o df_raw.cols[FirstDateColumn].name
                                \o <<"+">> \o df_raw.cols[FirstAmountColumn].name

\* C25 as stated: the event-list processor reads dates from the first
\* date-like and amounts from the first amount-like column, builds line_source
\* from the row index and the two names, and the values of any further
\* date-like or amount-like column never affect the output rows.
C25_FurtherColumnsNeverMatter ==
    SimpleListProcessed
        => /\ ReadsFirstColumns
           /\ df_normalized = _process_simple_list(Blanked(df_raw, FurtherColumns)).table

\* C25 amended: the values of a further date-like or amount-like column do
\* not affect the output rows unless that column is the counterparty source,
\* whose values are the rows' counterparty.
C25_FurtherColumnsMatterOnlyAsCounterparty ==
    SimpleListProcessed
        => /\ ReadsFirstColumns
           /\ df_normalized
                = _process_simple_list(Blanked(df_raw, FurtherColumns \ CounterpartySource)).table

\* A grid with a second date-like and a second amount-like column whose
\* values differ from the first ones' was processed into rows.
C25_Witness ==
    /\ SimpleListProcessed
    /\ Len(df_normalized.rows) > 0
    /\ Len(_find_date_columns(df_raw)) >= 2
    /\ Len(_find_amount_columns(df_raw)) >= 2
    /\ \E i \in FurtherColumns \ CounterpartySource :
          /\ IsAmountColumn(df_raw.cols[i])
          /\ df_raw.cols[i].cells[1] # df_raw.cols[FirstAmountColumn].cells[1]
    /\ \E i \in FurtherColumns \ CounterpartySource :
          /\ IsDateColumn(df_raw.cols[i])
          /\ df_raw.cols[i].cells[1] # df_raw.cols[FirstDateColumn].cells[1]

\* The substrings a counterparty column's name holds.
CounterpartyWords ==
    { <<"v","e","n","d","o","r">>, <<"c","u","s","t","o","m","e","r">>,
      <<"c","o","u","n","t","e","r","p","a","r","t","y">>,
      <<"p","a","r","t","y">>,
      <<"d","e","s","c","r","i","p","t","i","o","n">>, <<"m","e","m","o">>,
      <<"d","e","t","a","i","l","s">>, <<"n","a","m","e">>,
      <<"c","o","m","p","a","n","y">> }

\* The columns whose lowercased name, underscores read as spaces, holds one
\* of the counterparty words, in original column order.
CounterpartyMatches ==
    SelectSeq(Indexes(Len(df_raw.cols)),
              LAMBDA i : \E w \in CounterpartyWords :
                            Contains(ReplaceUnderscore(Lower(df_raw.cols[i].name)), w))

\* C26: the counterparty of every row the event-list processor returns is the
\* text of its source row's cell in the first column whose name holds a
\* counterparty word, and "Unknown" when no column does.
C26_CounterpartyFromFirstMatch ==
    SimpleListProcessed
        => \A row \in RowsOf(df_normalized) :
              row.counterparty =
                  IF Len(CounterpartyMatches) = 0 THEN Txt(Unknown)
                  ELSE AsTypeStr(df_raw.cols[CounterpartyMatches[1]].cells[row.idx + 1])

\* Two columns match and the rows carry the first one's value, which is not
\* the second one's.
C26_Witness ==
    /\ SimpleListProcessed
    /\ Len(CounterpartyMatches) >= 2
    /\ \E row \in RowsOf(df_normalized) :
          /\ row.counterparty = AsTypeStr(df_raw.cols[CounterpartyMatches[1]].cells[row.idx + 1])
          /\ row.counterparty # AsTypeStr(df_raw.cols[CounterpartyMatches[2]].cells[row.idx + 1])

ExclusionWords ==
    { <<"d","a","t","e">>, <<"t","i","m","e">>, <<"d","a","y">>,
      <<"m","o","n","t","h">>, <<"y","e","a","r">> }

AmountWords ==
    { <<"a","m","o","u","n","t">>, <<"v","a","l","u","e">>,
      <<"t","o","t","a","l">>, <<"s","u","m">>,
      <<"b","a","l","a","n","c","e">>, <<"c","a","s","h">>,
      <<"d","o","l","l","a","r">>, <<"u","s","d">>, <<"p","r","i","c","e">> }

Excluded(col) == \E w \in ExclusionWords : Contains(Lower(col.name), w)

\* C27: when the layout detector has run, the amount-like columns are, in original column order, exactly those
\* whose lowercased name holds no exclusion word and which hold an amount
\* word or are of a numeric dtype; a column whose name holds an exclusion
\* word is never amount-like.
C27_AmountLikeColumns ==
    pc = "process" =>
    /\ _find_amount_columns(df_raw)
         = SelectSeq(Indexes(Len(df_raw.cols)),
                     LAMBDA i : /\ ~Excluded(df_raw.cols[i])
                                /\ \/ \E w \in AmountWords : Contains(Lower(df_raw.cols[i].name), w)
                                   \/ df_raw.cols[i].numeric)
    /\ \A k \in 1..Len(_find_amount_columns(df_raw)) :
          ~Excluded(df_raw.cols[_find_amount_columns(df_raw)[k]])

\* A grid with an excluded column that holds an amount word, an excluded
\* numeric column and a numeric column without an amount word was processed
\* with the last one as its amount column.
C27_Witness ==
    /\ SimpleListProcessed
    /\ \E i \in 1..Len(df_raw.cols) :
          /\ Excluded(df_raw.cols[i])
          /\ \E w \in AmountWords : Contains(Lower(df_raw.cols[i].name), w)
    /\ \E i \in 1..Len(df_raw.cols) : Excluded(df_raw.cols[i]) /\ df_raw.cols[i].numeric
    /\ df_raw.cols[FirstAmountColumn].numeric
    /\ ~\E w \in AmountWords : Contains(Lower(df_raw.cols[FirstAmountColumn].name), w)

\* C28: when a grid is classified event-list, the column the dates are read
\* from and the column the amounts are read from are two different columns.
C28_DateAndAmountColumnsDiffer ==
    layout_type = "simple_list" => FirstDateColumn # FirstAmountColumn

DateWords ==
    { <<"d","a","t","e">>, <<"d","u","e">>,
      <<"s","c","h","e","d","u","l","e">> }

\* C30: when the layout detector has run, a column is date-like if and only if its lowercased name holds
\* "date", "due" or "schedule"; whether the sample of its values parses as
\* dates changes nothing.
C30_DateLikeByNameOnly ==
    pc = "process" =>
    \A i \in 1..Len(df_raw.cols) :
        /\ IsDateColumn(df_raw.cols[i])
             <=> \E w \in DateWords : Contains(Lower(df_raw.cols[i].name), w)
        /\ IsDateColumn(df_raw.cols[i])
             <=> IsDateColumn([df_raw.cols[i] EXCEPT !.cells = [r \in 1..df_raw.nrows |-> NaN]])

\* A column named like a date whose values do not parse was taken as the date
\* column, and the call failed on it; a column of dates under another name
\* was not taken.
C30_Witness ==
    /\ pc = "failed"
    /\ err = ValueError
    /\ layout_type = "simple_list"
    /\ ~_column_contains_dates(df_raw.cols[FirstDateColumn])
    /\ \E i \in 1..Len(df_raw.cols) :
          _column_contains_dates(df_raw.cols[i]) /\ ~IsDateColumn(df_raw.cols[i])

=============================================================================
